---- MODULE Spec2Model ----
(***************************************************************************)
(* Verification model of BA_Dedup2: the version ledger                     *)
(* (utils/versioning.py, agents/merge_agent.py) and the safety gates of    *)
(* the similarity scorer (agents/matching_agent.py, utils/helpers.py).     *)
(***************************************************************************)
EXTENDS Integers, Sequences, FiniteSets, TLC

VARIABLES
    source,         \* ba_source_records as the connection sees it: record_id -> row
    operations,     \* ba_merge_operations as the connection sees it (rowid order)
    versions,       \* ba_record_versions as the connection sees it (rowid order)
    relationships,  \* ba_merge_relationships as the connection sees it (rowid order)
    committed,      \* what the last commit() made durable, all four tables
    result,         \* outcome of the last call (return value or raised exception)
    touched,        \* history: the source records whose row the last call changed
    writes,         \* history: number of updates made by the import tracker
    failures,       \* history: number of calls that raised
    clock,          \* CURRENT_TIMESTAMP, in seconds
    history,        \* the source records as they were at the end of each past second
    df,             \* scorer: the validated frame handed to _calculate_similarities
    scoring,        \* scorer: "idle", "returned" or "raised"
    pairs,          \* scorer: duplicate_pairs returned by _calculate_similarities
    config,         \* scorer: the agent's configuration (self.similarity_threshold)
    retained,       \* clusterer: the duplicate_pairs list handed to the clusterer
    clustered,      \* clusterer: outcome of the last clustering call
    instance,       \* caches: the cache object the calls go to
    fuzzy_cache,    \* FuzzyMatchCache.cache: the OrderedDict, oldest entry first
    caches,         \* NormalizationCache.caches: field type -> OrderedDict
    accessed,       \* history: per cache, its keys by last access (get hit or put), oldest first
    stored,         \* history: per compared pair, the score last put for it and not evicted since (a set: empty, or that score)
    answer,         \* caches: outcome of the last call
    workers,        \* scorer workers: each worker's position inside its cache call
    blocking,       \* blocking index: the frame and budget handed to SmartBlockingStrategy, then its outcome
    merging,        \* merger: the cluster frame handed to merge_records, then its golden record
    compared,       \* scorer: the two rows of a candidate pair, then their location sub-scores
    normalizing,    \* normalizer: a text, the function applied to it, and its successive outputs
    undoers,        \* ledger: per connection, the position of its undo_merge call and the row it read
    workflow        \* workflow engine: the state manager's state, the position of run, its data

ledgerVars == <<source, operations, versions, relationships, committed, result, touched, writes, failures, clock, history>>
scorerVars == <<df, scoring, pairs, config>>
clusterVars == <<retained, clustered>>
cacheVars == <<instance, fuzzy_cache, caches, accessed, stored, answer>>
runVars == <<workers, blocking, merging, compared, normalizing, undoers, workflow>>
vars == <<ledgerVars, scorerVars, clusterVars, cacheVars, runVars>>

\* settings.SIMILARITY_THRESHOLD, in ten-thousandths
similarity_threshold == 8500

\* no frame has been scored; the agent runs with the default configuration
IdleScorer ==
    /\ df = <<>> /\ scoring = "idle" /\ pairs = <<>>
    /\ config = [similarity_threshold |-> similarity_threshold]

\* nothing has been clustered
IdleCluster == retained = <<>> /\ clustered = [status |-> "idle"]

\* the threads that score pairs against the one global FuzzyMatchCache
Workers == {"w1", "w2"}

\* no worker is inside a cache call
IdleWorkers ==
    workers = [w \in Workers |-> [pc |-> "idle", args |-> <<>>, outcome |-> [status |-> "none"]]]

\* nothing beyond the ledger, the scorer, the clusterer and the caches is running
IdleBlocking == blocking = [status |-> "idle"]
IdleMerging == merging = [status |-> "idle"]
IdleCompared == compared = [status |-> "idle"]
IdleNormalized == normalizing = [status |-> "idle"]
\* the connections that call undo_merge, each with its own MergeVersionManager
Connections == {"c1", "c2"}
IdleUndoers == undoers = [c \in Connections |-> [pc |-> "idle", read |-> {}, outcome |-> {}]]
\* workflow_def['steps']: one step per agent, named after it
Steps == <<"ingestion", "validation", "matching", "merge">>
\* StateManager._create_initial_state
_create_initial_state ==
    [pipeline_id |-> "<None>", status |-> "not_started", current_step |-> "<None>",
     completed_steps |-> <<>>, failed_steps |-> <<>>,
     step_results |-> [s \in {Steps[i] : i \in 1..Len(Steps)} |-> "absent"], errors |-> <<>>]
\* a new WorkflowEngine with a new state file; data is {} for None or {lineage} for a
\* frame, the lineage being the agents that produced it
IdleWorkflow ==
    workflow = [state |-> _create_initial_state, pc |-> "idle", step |-> 1, runs |-> 0,
                current_data |-> {}, step_results |-> <<>>, executed |-> <<>>, returned |-> {}]
IdleRun ==
    /\ IdleWorkers /\ IdleBlocking /\ IdleMerging /\ IdleCompared /\ IdleNormalized
    /\ IdleUndoers /\ IdleWorkflow

(***************************************************************************)
(* Bounds of the model                                                     *)
(***************************************************************************)
MaxOps == 2        \* rows of ba_merge_operations
MaxWrites == 1     \* updates of source records by the import tracker
MaxFailures == 1   \* calls that raise an exception

\* record ids in DataFrame row order (examples/test_priority3_features.py)
RecOrder == <<"REC001", "REC002", "REC003">>
RecIds == {RecOrder[i] : i \in 1..Len(RecOrder)}
Fields == {"name", "cluster_id"}
Values == {"a", "b"}
ClusterIds == {1}

\* SQL NULL / Python None (JSON null), and pandas' NaN for a missing cell
None == "<None>"
NaN == "<NaN>"

\* NormalizationCache.__init__: one OrderedDict per field type
FieldTypes == {"name", "address", "city", "phone", "email"}

\* the pairs of strings handed to the fuzzy cache, in both argument orders
ComparedPairs ==
    {<<"a", "b">>, <<"b", "a">>, <<"a|a", "b">>, <<"b", "a|a">>,
     <<"a", "a|b">>, <<"a|b", "a">>, <<"a", "a">>, <<"b", "b">>}

\* freshly constructed caches, no call made
EmptyCaches ==
    /\ fuzzy_cache = <<>>
    /\ caches = [field_type \in FieldTypes |-> <<>>]
    /\ accessed = [c \in FieldTypes \cup {"fuzzy"} |-> <<>>]
    /\ stored = [p \in ComparedPairs |-> {}]
    /\ answer = [call |-> "init"]

\* no cache is in use
IdleCache == instance = "none" /\ EmptyCaches

(***************************************************************************)
(* Helpers                                                                 *)
(***************************************************************************)
Range(s) == {s[i] : i \in 1..Len(s)}

IndexOf(seq, x) == CHOOSE i \in 1..Len(seq) : seq[i] = x

\* the rows of a DataFrame slice, in the frame's row order
RECURSIVE RowOrder(_)
RowOrder(S) ==
    IF S = {} THEN <<>>
    ELSE LET first == CHOOSE r \in S : \A q \in S : IndexOf(RecOrder, r) <= IndexOf(RecOrder, q)
         IN <<first>> \o RowOrder(S \ {first})

IsPrefix(s, t) == Len(s) <= Len(t) /\ SubSeq(t, 1, Len(s)) = s

Tables == [source |-> source, operations |-> operations,
           versions |-> versions, relationships |-> relationships]

TablesNext == [source |-> source', operations |-> operations',
               versions |-> versions', relationships |-> relationships']

\* pd.isna(val)
IsNa(val) == val = NaN \/ val = None

\* pandas reads a SQL NULL as a missing cell
FrameRow(r) ==
    [f \in Fields \cup {"record_id"} |->
        IF f = "record_id" THEN r
        ELSE IF source[r][f] = None THEN NaN ELSE source[r][f]]

\* record.to_dict() with the non-JSON-serializable values converted, then
\* json.dumps on write and json.loads on read (strings and null round-trip)
RecordSnapshot(record) ==
    [key \in DOMAIN record |-> IF IsNa(record[key]) THEN None ELSE record[key]]

\* cursor.lastrowid of an INSERT into an AUTOINCREMENT table: one more than
\* the largest rowid ever used (no row of the ledger is ever deleted)
LastRowId(table) ==
    IF Len(table) = 0 THEN 1
    ELSE 1 + (CHOOSE m \in {table[i].operation_id : i \in 1..Len(table)} :
                 \A i \in 1..Len(table) : table[i].operation_id <= m)

OperationRow(id, now, type, cluster_id, count, golden_id) ==
    [operation_id |-> id, operation_timestamp |-> now,
     operation_type |-> type, cluster_id |-> cluster_id,
     record_count |-> count, golden_record_id |-> golden_id,
     is_undone |-> FALSE, undone_by_operation_id |-> 0]

VersionRow(op, rid, type, data) ==
    [operation_id |-> op, record_id |-> rid, version_type |-> type, record_data |-> data]

RelationshipRow(op, src, tgt, score) ==
    [operation_id |-> op, source_record_id |-> src, target_record_id |-> tgt,
     similarity_score |-> score]

(***************************************************************************)
(* The outcome of a call                                                   *)
(***************************************************************************)
Outcome(call, arg, success, error, raised, op_id, undo_id, restored) ==
    [call |-> call, arg |-> arg, success |-> success, error |-> error,
     raised |-> raised, operation_id |-> op_id, undo_operation_id |-> undo_id,
     count |-> restored]

NoOutcome == Outcome("init", 0, FALSE, "", FALSE, 0, 0, 0)

(***************************************************************************)
(* MergeVersionManager.record_merge_operation                              *)
(***************************************************************************)
\* 1. INSERT INTO ba_merge_operations; is_undone and undone_by_operation_id
\*    take the column defaults
InsertOperation(t, now, type, cluster_id, records, golden) ==
    [t EXCEPT !.operations =
        Append(@, OperationRow(LastRowId(t.operations), now, type, cluster_id,
                               Len(records), golden["record_id"]))]

\* variant: the first row of records_df gets no snapshot
InsertBeforeMerge_SkipFirst(t, op_id, records) ==
    [t EXCEPT !.versions =
        @ \o [i \in 1..(Len(records) - 1) |->
                VersionRow(op_id, records[i + 1]["record_id"], "before_merge",
                           RecordSnapshot(records[i + 1]))]]

\* 2. one 'before_merge' snapshot per row of records_df
InsertBeforeMerge(t, op_id, records) ==
    [t EXCEPT !.versions =
        @ \o [i \in 1..Len(records) |->
                VersionRow(op_id, records[i]["record_id"], "before_merge",
                           RecordSnapshot(records[i]))]]

\* 3. the 'golden' snapshot
InsertGolden(t, op_id, golden) ==
    [t EXCEPT !.versions =
        Append(@, VersionRow(op_id, golden["record_id"], "golden", RecordSnapshot(golden)))]

\* 4. one relationship per row of records_df; similarity_score defaults to 1.0
InsertRelationships(t, op_id, records, golden) ==
    [t EXCEPT !.relationships =
        @ \o [i \in 1..Len(records) |->
                RelationshipRow(op_id, records[i]["record_id"], golden["record_id"],
                    IF "similarity_score" \in DOMAIN records[i]
                    THEN records[i]["similarity_score"] ELSE "1.0")]]

\* number of statements of record_merge_operation, self.db.commit() included
MergeStatements == 5

\* the tables after the first n statements of record_merge_operation
MergeWrites(t, now, type, cluster_id, records, golden, n) ==
    LET op_id == LastRowId(t.operations)
        t1 == IF n >= 1 THEN InsertOperation(t, now, type, cluster_id, records, golden) ELSE t
        t2 == IF n >= 2 THEN InsertBeforeMerge(t1, op_id, records) ELSE t1
        t3 == IF n >= 3 THEN InsertGolden(t2, op_id, golden) ELSE t2
        t4 == IF n >= 4 THEN InsertRelationships(t3, op_id, records, golden) ELSE t3
    IN t4

\* db: [t |-> the connection's view, c |-> the committed tables]. The
\* call's effect on both, and its outcome; failAt is the statement that
\* raises (0: none). An exception leaves the statements before it in the
\* connection's open transaction: nothing rolls back.
RecordMerge(db, now, cluster_id, records, golden, failAt) ==
    LET op_id == LastRowId(db.t.operations)
        done == IF failAt = 0 THEN MergeStatements ELSE failAt - 1
        t == MergeWrites(db.t, now, "auto_merge", cluster_id, records, golden, done)
    IN IF failAt = 0
       THEN [t |-> t, c |-> t,
             out |-> Outcome("record_merge_operation", cluster_id, TRUE, "", FALSE,
                             op_id, 0, Len(records))]
       ELSE [t |-> t, c |-> db.c,
             out |-> Outcome("record_merge_operation", cluster_id, FALSE, "exception", TRUE, 0, 0, 0)]

(***************************************************************************)
(* MergeVersionManager.undo_merge                                          *)
(***************************************************************************)
\* SELECT ... FROM ba_merge_operations WHERE operation_id = ?  (fetchone)
FindOperation(ops, operation_id) ==
    {i \in 1..Len(ops) : ops[i].operation_id = operation_id}

\* variant: the is_undone check is missing
AlreadyUndone_Never(op) == FALSE

\* if operation[3]:  # is_undone
AlreadyUndone(op) == op.is_undone

\* SELECT record_id, record_data FROM ba_record_versions
\* WHERE operation_id = ? AND version_type = 'before_merge'   (rowid order)
BeforeSnapshots(vs, operation_id) ==
    SelectSeq(vs, LAMBDA v : v.operation_id = operation_id /\ v.version_type = "before_merge")

\* the columns the UPDATE of one snapshot sets: every key but the primary key
SetClauses(record_data) == DOMAIN record_data \ {"record_id"}

\* variant: the UPDATE sets the name column only
RestoreRecord_NameOnly(t, snap) ==
    IF snap.record_id \in DOMAIN t.source
    THEN [t EXCEPT !.source[snap.record_id] =
            [f \in DOMAIN @ |->
                IF f \in SetClauses(snap.record_data) \cap {"name"}
                THEN snap.record_data[f] ELSE @[f]]]
    ELSE t

\* UPDATE ba_source_records SET <key = ?, ...> WHERE record_id = ?
RestoreRecord(t, snap) ==
    IF snap.record_id \in DOMAIN t.source
    THEN [t EXCEPT !.source[snap.record_id] =
            [f \in DOMAIN @ |->
                IF f \in SetClauses(snap.record_data) THEN snap.record_data[f] ELSE @[f]]]
    ELSE t

\* a snapshot key that is no column of ba_source_records: sqlite3.OperationalError
UnknownColumn(snap) == ~(SetClauses(snap.record_data) \subseteq Fields)

\* 4. UPDATE ba_merge_operations SET is_undone = 1 WHERE operation_id = ?
MarkUndone(t, operation_id) ==
    [t EXCEPT !.operations =
        [i \in 1..Len(@) |->
            IF @[i].operation_id = operation_id THEN [@[i] EXCEPT !.is_undone = TRUE] ELSE @[i]]]

\* variant: the 'undo' row overwrites the last operation row
InsertUndoOperation_Overwrite(t, now, cluster_id, record_count) ==
    [t EXCEPT !.operations =
        [@ EXCEPT ![Len(@)] = OperationRow(LastRowId(t.operations), now, "undo",
                                           cluster_id, record_count, None)]]

\* 5. INSERT INTO ba_merge_operations ('undo', ...): golden_record_id is not set
InsertUndoOperation(t, now, cluster_id, record_count) ==
    [t EXCEPT !.operations =
        Append(@, OperationRow(LastRowId(t.operations), now, "undo", cluster_id,
                               record_count, None))]

\* variant: the link points at the undone operation itself
LinkUndo_Self(t, operation_id, undo_operation_id) ==
    [t EXCEPT !.operations =
        [i \in 1..Len(@) |->
            IF @[i].operation_id = operation_id
            THEN [@[i] EXCEPT !.undone_by_operation_id = operation_id] ELSE @[i]]]

\* UPDATE ba_merge_operations SET undone_by_operation_id = ? WHERE operation_id = ?
LinkUndo(t, operation_id, undo_operation_id) ==
    [t EXCEPT !.operations =
        [i \in 1..Len(@) |->
            IF @[i].operation_id = operation_id
            THEN [@[i] EXCEPT !.undone_by_operation_id = undo_operation_id] ELSE @[i]]]

\* the tables after the first n UPDATEs of the restore loop over snaps
RECURSIVE RestoreWrites(_, _, _)
RestoreWrites(t, snaps, n) ==
    IF n = 0 \/ snaps = <<>> THEN t
    ELSE RestoreWrites(RestoreRecord(t, Head(snaps)), Tail(snaps), n - 1)

\* the tables after the first n statements of undo_merge past its checks:
\* Len(snaps) UPDATEs, the mark, the 'undo' row, the link (then the commit)
UndoWrites(t, now, op, snaps, n) ==
    LET k == Len(snaps)
        t1 == RestoreWrites(t, snaps, n)
        t2 == IF n >= k + 1 THEN MarkUndone(t1, op.operation_id) ELSE t1
        t3 == IF n >= k + 2 THEN InsertUndoOperation(t2, now, op.cluster_id, op.record_count) ELSE t2
        t4 == IF n >= k + 3 THEN LinkUndo(t3, op.operation_id, LastRowId(t2.operations)) ELSE t3
    IN t4

\* the first statement of undo_merge that raises on its own (0: none)
ForcedFailure(snaps) ==
    IF \E i \in 1..Len(snaps) : UnknownColumn(snaps[i])
    THEN CHOOSE i \in 1..Len(snaps) :
            UnknownColumn(snaps[i]) /\ \A j \in 1..(i - 1) : ~UnknownColumn(snaps[j])
    ELSE 0

\* statements of undo_merge after the restore loop: mark, insert, link, commit
UndoTail == 4

\* db: [t |-> the connection's view, c |-> the committed tables]. The
\* call's effect on both, and its outcome; failAt is the statement an
\* injected error hits (0: none). Nothing rolls back on an exception.
Undo(db, now, operation_id, failAt) ==
    LET found == FindOperation(db.t.operations, operation_id)
        op == db.t.operations[CHOOSE i \in found : TRUE]
        snaps == BeforeSnapshots(db.t.versions, operation_id)
        forced == ForcedFailure(snaps)
        fail == IF forced # 0 /\ (failAt = 0 \/ forced < failAt) THEN forced ELSE failAt
        done == IF fail = 0 THEN Len(snaps) + UndoTail ELSE fail - 1
        t == UndoWrites(db.t, now, op, snaps, done)
        refused(error) ==
            [t |-> db.t, c |-> db.c,
             out |-> Outcome("undo_merge", operation_id, FALSE, error, FALSE, 0, 0, 0)]
    IN IF found = {} THEN refused("Operation not found")
       ELSE IF AlreadyUndone(op) THEN refused("Operation already undone")
       ELSE IF snaps = <<>> THEN refused("No snapshots found")
       ELSE IF fail = 0
       THEN [t |-> t, c |-> t,
             out |-> Outcome("undo_merge", operation_id, TRUE, "", FALSE,
                             operation_id, LastRowId(db.t.operations), Len(snaps))]
       ELSE [t |-> t, c |-> db.c,
             out |-> Outcome("undo_merge", operation_id, FALSE, "exception", TRUE, 0, 0, 0)]

\* the number of statements undo_merge would run for this operation
UndoStatements(operation_id) ==
    IF FindOperation(operations, operation_id) = {} THEN 0
    ELSE Len(BeforeSnapshots(versions, operation_id)) + UndoTail

Install(db) ==
    /\ source' = db.t.source
    /\ operations' = db.t.operations
    /\ versions' = db.t.versions
    /\ relationships' = db.t.relationships
    /\ committed' = db.c
    /\ touched' = {r \in RecIds : db.t.source[r] # source[r]}

\* records_df: the cluster's rows as read from the source table
ClusterFrame(members) ==
    [i \in 1..Cardinality(members) |-> FrameRow(RowOrder(members)[i])]

RecordMergeOperation(cluster_id, members, g, failAt) ==
    LET r == RecordMerge([t |-> Tables, c |-> committed], clock, cluster_id,
                         ClusterFrame(members), FrameRow(g), failAt)
    IN /\ r.out.raised => failures < MaxFailures
       /\ Install(r)
       /\ result' = r.out
       /\ failures' = IF r.out.raised THEN failures + 1 ELSE failures
       /\ UNCHANGED <<writes, clock, history, scorerVars, clusterVars, cacheVars, runVars>>

(***************************************************************************)
(* utils/helpers.merge_records and MergeAgent._merge_cluster               *)
(***************************************************************************)
\* settings.MATCH_FIELDS, the default important_fields
ImportantFields == {"name", "address", "city", "state", "zip"}

\* pd.isna(x) or str(x).strip() == ''
IsEmpty(val) == IsNa(val) \/ val = ""

\* calculate_completeness_score: filled_count / len(important_fields), as text
CompletenessScore(record) ==
    LET filled == Cardinality({f \in ImportantFields \cap DOMAIN record : ~IsEmpty(record[f])})
    IN IF filled = 0 THEN "0.0"
       ELSE IF filled = 1 THEN "0.2"
       ELSE IF filled = 2 THEN "0.4"
       ELSE IF filled = 3 THEN "0.6"
       ELSE IF filled = 4 THEN "0.8" ELSE "1.0"

\* text scores compare as the fractions they stand for
ScoreRank(score) ==
    CHOOSE n \in 0..5 : score = <<"0.0", "0.2", "0.4", "0.6", "0.8", "1.0">>[n + 1]

\* records['_completeness_score'] = ...: the column is added to the caller's frame
WithCompleteness(records) ==
    [i \in 1..Len(records) |->
        [k \in DOMAIN records[i] \cup {"_completeness_score"} |->
            IF k = "_completeness_score" THEN CompletenessScore(records[i]) ELSE records[i][k]]]

\* records.nlargest(1, '_completeness_score', keep='first')
MostComplete(scored) ==
    CHOOSE i \in 1..Len(scored) :
        /\ \A j \in 1..Len(scored) :
              ScoreRank(scored[j]["_completeness_score"]) <= ScoreRank(scored[i]["_completeness_score"])
        /\ \A j \in 1..(i - 1) :
              ScoreRank(scored[j]["_completeness_score"]) < ScoreRank(scored[i]["_completeness_score"])

\* the first non-null, non-empty value of a column, if any
FirstNonEmpty(records, col, default) ==
    IF \E i \in 1..Len(records) : ~IsEmpty(records[i][col])
    THEN records[CHOOSE i \in 1..Len(records) :
                    ~IsEmpty(records[i][col]) /\ \A j \in 1..(i - 1) : IsEmpty(records[j][col])][col]
    ELSE default

\* merge_records for a frame without a 'zip' column: [golden, records], the
\* golden record and the caller's frame as the call leaves it
MergeRecords(records, strategy) ==
    IF Len(records) = 1 \/ strategy # "most_complete"
    THEN [golden |-> records[1], records |-> records]
    ELSE LET scored == WithCompleteness(records)
             winner == scored[MostComplete(scored)]
             golden == [col \in DOMAIN winner \ {"_completeness_score"} |->
                          IF IsEmpty(winner[col])
                          THEN FirstNonEmpty(scored, col, winner[col]) ELSE winner[col]]
         IN [golden |-> golden, records |-> scored]

\* _merge_cluster: merge_records, then record_merge_operation inside
\* try/except: an exception is logged as a warning and the golden record is
\* returned all the same
MergeCluster(cluster_id, members, strategy, failAt) ==
    LET m == MergeRecords(ClusterFrame(members), strategy)
        r == RecordMerge([t |-> Tables, c |-> committed], clock, cluster_id,
                         m.records, m.golden, failAt)
    IN /\ r.out.raised => failures < MaxFailures
       /\ Install(r)
       /\ result' = Outcome("merge_cluster", cluster_id, TRUE,
                            IF r.out.raised THEN "Could not record merge version" ELSE "",
                            FALSE, r.out.operation_id, 0, Len(m.records))
       /\ failures' = IF r.out.raised THEN failures + 1 ELSE failures
       /\ UNCHANGED <<writes, clock, history, scorerVars, clusterVars, cacheVars, runVars>>

UndoMerge(operation_id, failAt) ==
    LET r == Undo([t |-> Tables, c |-> committed], clock, operation_id, failAt)
    IN /\ failAt <= UndoStatements(operation_id)
       /\ r.out.raised => failures < MaxFailures
       /\ Install(r)
       /\ result' = r.out
       /\ failures' = IF r.out.raised THEN failures + 1 ELSE failures
       /\ UNCHANGED <<writes, clock, history, scorerVars, clusterVars, cacheVars, runVars>>

(***************************************************************************)
(* MergeVersionManager.rollback_to_timestamp                               *)
(***************************************************************************)
\* SELECT operation_id ... WHERE operation_timestamp > ? AND is_undone = 0
\* AND operation_type != 'undo'
OperationsToUndo(ops, target_timestamp) ==
    {ops[i].operation_id : i \in
        {j \in 1..Len(ops) : /\ ops[j].operation_timestamp > target_timestamp
                             /\ ~ops[j].is_undone
                             /\ ops[j].operation_type # "undo"}}

TimestampOf(ops, operation_id) ==
    ops[CHOOSE i \in 1..Len(ops) : ops[i].operation_id = operation_id].operation_timestamp

\* ORDER BY operation_timestamp DESC: any order of the selected rows with
\* no earlier timestamp before a later one; rows of one second in any order
IsDescending(ops, order) ==
    \A i, j \in 1..Len(order) :
        i < j => TimestampOf(ops, order[i]) >= TimestampOf(ops, order[j])

Orderings(S) == {o \in [1..Cardinality(S) -> S] : Range(o) = S}

\* for operation_id, timestamp in operations_to_undo: self.undo_merge(...)
\* an exception of undo_merge ends the loop and propagates
RECURSIVE UndoAll(_, _, _, _)
UndoAll(db, now, order, undone) ==
    IF order = <<>> THEN [t |-> db.t, c |-> db.c, undone |-> undone, raised |-> FALSE]
    ELSE LET r == Undo(db, now, Head(order), 0)
         IN IF r.out.raised
            THEN [t |-> r.t, c |-> r.c, undone |-> undone, raised |-> TRUE]
            ELSE UndoAll(r, now, Tail(order),
                         IF r.out.success THEN Append(undone, Head(order)) ELSE undone)

RollbackToTimestamp(target_timestamp, order) ==
    LET r == UndoAll([t |-> Tables, c |-> committed], clock, order, <<>>)
    IN /\ Range(order) = OperationsToUndo(operations, target_timestamp)
       /\ IsDescending(operations, order)
       /\ r.raised => failures < MaxFailures
       /\ Install(r)
       /\ result' = IF r.raised
                    THEN Outcome("rollback_to_timestamp", target_timestamp, FALSE, "exception", TRUE, 0, 0, 0)
                    ELSE Outcome("rollback_to_timestamp", target_timestamp, TRUE, "", FALSE,
                                 0, 0, Len(r.undone))
       /\ failures' = IF r.raised THEN failures + 1 ELSE failures
       /\ UNCHANGED <<writes, clock, history, scorerVars, clusterVars, cacheVars, runVars>>

(***************************************************************************)
(* ImportTracker.update_source_records_with_clusters: an update of a       *)
(* source record by another connection, committed at once. It waits while  *)
(* this connection holds an open transaction.                              *)
(***************************************************************************)
UpdateSourceRecord(r, f, v) ==
    /\ writes < MaxWrites
    /\ Tables = committed
    /\ source[r][f] # v
    /\ touched' = {r}
    /\ source' = [source EXCEPT ![r][f] = v]
    /\ committed' = [committed EXCEPT !.source = source']
    /\ writes' = writes + 1
    /\ result' = Outcome("update_source_record", 0, TRUE, "", FALSE, 0, 0, 0)
    /\ UNCHANGED <<operations, versions, relationships, failures, clock, history, scorerVars, clusterVars, cacheVars, runVars>>

(***************************************************************************)
(* The ledger's specification: every call of the version manager, with     *)
(* injected statement failures, all within one second of the clock         *)
(***************************************************************************)
InitSource == [r \in RecIds |-> [f \in Fields |-> IF f = "name" /\ r = "REC003" THEN None ELSE "a"]]

\* a connection to a database that holds the source records and an empty ledger
IdleLedger ==
    /\ source = InitSource
    /\ operations = <<>>
    /\ versions = <<>>
    /\ relationships = <<>>
    /\ committed = Tables
    /\ result = NoOutcome
    /\ touched = {}
    /\ writes = 0
    /\ failures = 0
    /\ clock = 1
    /\ history = <<InitSource>>

InitLedger == IdleLedger /\ IdleRun /\ IdleScorer /\ IdleCluster /\ IdleCache

Clusters == {{"REC001", "REC002"}, {"REC002", "REC003"}}
Strategies == {"most_complete", "first"}
\* the record the import tracker updates: the one in both clusters
WrittenRecords == {"REC002"}

\* rows a call may add to ba_merge_operations within the bound
Room(n) == Len(operations) + n <= MaxOps

NextLedger ==
    \/ \E c \in ClusterIds, S \in Clusters, failAt \in 0..MergeStatements :
          Room(1) /\ RecordMergeOperation(c, S, RowOrder(S)[1], failAt)
    \/ \E id \in 1..(MaxOps + 1), failAt \in 0..(Len(RecOrder) + UndoTail) :
          UndoMerge(id, failAt) /\ Len(operations') <= MaxOps
    \/ \E ts \in 0..1 : \E S \in SUBSET (1..MaxOps) : \E order \in Orderings(S) :
          Room(Len(order)) /\ RollbackToTimestamp(ts, order)
    \/ \E r \in WrittenRecords, v \in Values : UpdateSourceRecord(r, "cluster_id", v)

SpecLedger == InitLedger /\ [][NextLedger]_vars

(***************************************************************************)
(* The rollback's specification: merges recorded over several seconds of   *)
(* CURRENT_TIMESTAMP (resolution: one second), updates of the source       *)
(* records in between, and rollback_to_timestamp                           *)
(***************************************************************************)
MaxClock == 2   \* seconds the clock runs through

\* a second passes
Tick ==
    /\ clock < MaxClock
    /\ clock' = clock + 1
    /\ history' = Append(history, committed.source)
    /\ UNCHANGED <<source, operations, versions, relationships, committed, result,
                   touched, writes, failures, scorerVars, clusterVars, cacheVars, runVars>>

\* the source records at the end of a past second (second 0: before any call)
SourceAt(t) == history[t + 1]

NextRollback ==
    \/ \E c \in ClusterIds, S \in Clusters :
          Len(operations) < MaxOps /\ RecordMergeOperation(c, S, RowOrder(S)[1], 0)
    \/ Tick
    \/ \E r \in WrittenRecords, v \in Values : UpdateSourceRecord(r, "cluster_id", v)
    \/ \E ts \in 0..(MaxClock - 1) : \E S \in SUBSET (1..MaxOps) : \E order \in Orderings(S) :
          ts < clock /\ S # {} /\ RollbackToTimestamp(ts, order)

SpecRollback == InitLedger /\ [][NextRollback]_vars

(***************************************************************************)
(* The merge agent's specification: clusters merged through                *)
(* MergeAgent._merge_cluster, undone through the version manager           *)
(***************************************************************************)
NextAgent ==
    \/ \E c \in ClusterIds, S \in Clusters, strategy \in Strategies, failAt \in 0..MergeStatements :
          Room(1) /\ MergeCluster(c, S, strategy, failAt)
    \/ \E id \in 1..(MaxOps + 1), failAt \in 0..(Len(RecOrder) + UndoTail) :
          UndoMerge(id, failAt) /\ Len(operations') <= MaxOps
    \/ \E r \in WrittenRecords, v \in Values : UpdateSourceRecord(r, "cluster_id", v)

SpecAgent == InitLedger /\ [][NextAgent]_vars

(***************************************************************************)
(* Strings, as Python handles them                                         *)
(***************************************************************************)
UpperCase == "ABCDEFGHIJKLMNOPQRSTUVWXYZ"
LowerCase == "abcdefghijklmnopqrstuvwxyz"
Whitespace == {" "}

\* one character of str.lower()
LowerChar(c) ==
    IF \E i \in 1..Len(UpperCase) : SubSeq(UpperCase, i, i) = c
    THEN LET i == CHOOSE i \in 1..Len(UpperCase) : SubSeq(UpperCase, i, i) = c
         IN SubSeq(LowerCase, i, i)
    ELSE c

\* str.lower()
RECURSIVE Lower(_)
Lower(str) ==
    IF str = "" THEN ""
    ELSE LowerChar(SubSeq(str, 1, 1)) \o Lower(SubSeq(str, 2, Len(str)))

\* needle in hay
Contains(hay, needle) ==
    \E i \in 1..(Len(hay) - Len(needle) + 1) : SubSeq(hay, i, i + Len(needle) - 1) = needle

\* str.replace(c, '') for each character c of chars
RECURSIVE Remove(_, _)
Remove(str, chars) ==
    IF str = "" THEN ""
    ELSE (IF SubSeq(str, 1, 1) \in chars THEN "" ELSE SubSeq(str, 1, 1))
            \o Remove(SubSeq(str, 2, Len(str)), chars)

\* str.strip()
RECURSIVE Strip(_)
Strip(str) ==
    IF str = "" THEN ""
    ELSE IF SubSeq(str, 1, 1) \in Whitespace THEN Strip(SubSeq(str, 2, Len(str)))
    ELSE IF SubSeq(str, Len(str), Len(str)) \in Whitespace THEN Strip(SubSeq(str, 1, Len(str) - 1))
    ELSE str

\* str.split()
RECURSIVE Split(_)
Split(str) ==
    IF str = "" THEN <<>>
    ELSE IF SubSeq(str, 1, 1) \in Whitespace THEN Split(SubSeq(str, 2, Len(str)))
    ELSE LET stops == {i \in 1..Len(str) : SubSeq(str, i, i) \in Whitespace}
             n == IF stops = {} THEN Len(str) + 1
                  ELSE CHOOSE i \in stops : \A j \in stops : i <= j
         IN <<SubSeq(str, 1, n - 1)>> \o Split(SubSeq(str, n, Len(str)))

\* ' '.join(words)
RECURSIVE Join(_)
Join(words) ==
    IF words = <<>> THEN ""
    ELSE IF Len(words) = 1 THEN words[1]
    ELSE words[1] \o " " \o Join(Tail(words))

\* str(value): a missing value prints as 'nan'
DigitChars == {"0", "1", "2", "3", "4", "5", "6", "7", "8", "9"}

\* re.sub(r'\D', '', str)
RECURSIVE OnlyDigits(_)
OnlyDigits(str) ==
    IF str = "" THEN ""
    ELSE (IF SubSeq(str, 1, 1) \in DigitChars THEN SubSeq(str, 1, 1) ELSE "")
            \o OnlyDigits(SubSeq(str, 2, Len(str)))

Str(value) == IF value = NaN THEN "nan" ELSE IF value = None THEN "None" ELSE value

\* re.sub(r'\s+', ' ', text)
RECURSIVE CollapseSpaces(_)
CollapseSpaces(text) ==
    IF Len(text) < 2 THEN (IF text \in Whitespace THEN " " ELSE text)
    ELSE IF SubSeq(text, 1, 1) \in Whitespace
    THEN IF SubSeq(text, 2, 2) \in Whitespace
         THEN CollapseSpaces(SubSeq(text, 2, Len(text)))
         ELSE " " \o CollapseSpaces(SubSeq(text, 2, Len(text)))
    ELSE SubSeq(text, 1, 1) \o CollapseSpaces(SubSeq(text, 2, Len(text)))

normalize_string(text, lowercase) ==
    IF IsNa(text) THEN ""
    ELSE LET collapsed == CollapseSpaces(Strip(Str(text)))
         IN IF lowercase THEN Lower(collapsed) ELSE collapsed

(***************************************************************************)
(* utils/helpers.py: suffixes, titles, entity types                        *)
(***************************************************************************)
SUFFIX_VARIATIONS ==
    [junior |-> "jr", jr |-> "jr", senior |-> "sr", sr |-> "sr"]
    @@ ("jr." :> "jr" @@ "sr." :> "sr"
        @@ "ii" :> "2" @@ "2nd" :> "2" @@ "second" :> "2"
        @@ "iii" :> "3" @@ "3rd" :> "3" @@ "third" :> "3"
        @@ "iv" :> "4" @@ "4th" :> "4" @@ "fourth" :> "4"
        @@ "v" :> "5" @@ "5th" :> "5" @@ "fifth" :> "5"
        @@ "esq" :> "esq" @@ "esq." :> "esq" @@ "esquire" :> "esq"
        @@ "md" :> "md" @@ "md." :> "md" @@ "phd" :> "phd" @@ "phd." :> "phd"
        @@ "do" :> "do" @@ "do." :> "do" @@ "dds" :> "dds" @@ "dds." :> "dds"
        @@ "jd" :> "jd" @@ "jd." :> "jd")

SuffixValues == {SUFFIX_VARIATIONS[k] : k \in DOMAIN SUFFIX_VARIATIONS}

TITLES ==
    {"dr", "dr.", "doctor", "mr", "mr.", "mister", "mrs", "mrs.", "missus",
     "ms", "ms.", "miss", "prof", "prof.", "professor", "rev", "rev.", "reverend",
     "hon", "hon.", "honorable", "capt", "capt.", "captain", "lt", "lt.", "lieutenant",
     "sgt", "sgt.", "sergeant", "col", "col.", "colonel", "gen", "gen.", "general"}

trust_indicators ==
    <<"trust", "trustee", "revocable trust", "irrevocable trust", "living trust",
      "family trust", "estate of", "estate", "testamentary trust", "grantor trust">>

department_indicators ==
    <<"dept", "department", "division", "unit", "section", "radiology", "cardiology",
      "oncology", "emergency", "billing", "accounts payable", "accounts receivable",
      "hr", "human resources", "it dept", "laboratory", "pathology", "surgery",
      "anesthesiology", "pediatrics", "neurology", "orthopedics", "dermatology">>

business_indicators ==
    <<"llc", "inc", "inc.", "incorporated", "corp", "corp.", "corporation", "ltd",
      "ltd.", "limited", "co", "co.", "company", "partnership", "lp", "l.p.", "llp",
      "l.l.p.", "pa", "p.a.", "pc", "p.c.", "pllc", "p.l.l.c.", "plc", "group",
      "associates", "partners">>

\* not value: a missing or empty value
Falsy(value) == IsNa(value) \/ value = ""

normalize_suffix(suffix) ==
    IF Falsy(suffix) THEN ""
    ELSE LET clean == Remove(Strip(Lower(Str(suffix))), {"."})
         IN IF clean \in DOMAIN SUFFIX_VARIATIONS THEN SUFFIX_VARIATIONS[clean] ELSE clean

\* returns <<name_without_title, title_extracted>>
remove_title(name) ==
    IF Falsy(name) THEN <<"", "">>
    ELSE LET name_str == Strip(Str(name))
             words == Split(name_str)
             clean(word) == Remove(Lower(word), {".", ","})
         IN IF words = <<>> THEN <<name_str, "">>
            ELSE IF clean(words[1]) \in TITLES THEN <<Join(Tail(words)), words[1]>>
            ELSE IF Len(words) > 1 /\ clean(words[Len(words)]) \in TITLES
            THEN <<Join(SubSeq(words, 1, Len(words) - 1)), words[Len(words)]>>
            ELSE <<name_str, "">>

AnyIn(indicators, text) == \E i \in 1..Len(indicators) : Contains(text, indicators[i])

extract_entity_type(name) ==
    IF Falsy(name) THEN "individual"
    ELSE LET name_lower == Lower(Str(name))
         IN IF AnyIn(trust_indicators, name_lower) THEN "trust"
            ELSE IF AnyIn(department_indicators, name_lower) THEN "department"
            ELSE IF AnyIn(business_indicators, name_lower) THEN "business"
            ELSE "individual"

\* the loop of extract_department_name from the k-th indicator on: the word
\* before the first word that contains the indicator, or the indicator itself
\* when that word comes first; an indicator no single word contains is passed
RECURSIVE DepartmentFrom(_, _)
DepartmentFrom(name_lower, k) ==
    IF k > Len(department_indicators) THEN name_lower
    ELSE LET indicator == department_indicators[k]
             parts == Split(name_lower)
             hits == {i \in 1..Len(parts) : Contains(parts[i], indicator)}
             i == CHOOSE i \in hits : \A j \in hits : i <= j
         IN IF Contains(name_lower, indicator) /\ hits # {}
            THEN (IF i > 1 THEN parts[i - 1] ELSE indicator)
            ELSE DepartmentFrom(name_lower, k + 1)

extract_department_name(name) == DepartmentFrom(Lower(name), 1)

\* variant: the gate lets every pair through
should_match_entities_Always(entity1_type, entity2_type, name1, name2) == TRUE

\* the trust branch computes the trust names and then passes
should_match_entities(entity1_type, entity2_type, name1, name2) ==
    IF entity1_type # entity2_type THEN FALSE
    ELSE IF entity1_type = "department"
            /\ extract_department_name(name1) # extract_department_name(name2)
    THEN FALSE
    ELSE TRUE

NameParts(first, middle, last, suffix, title) ==
    [first |-> first, middle |-> middle, last |-> last, suffix |-> suffix, title |-> title]

parse_name(full_name) ==
    IF Falsy(full_name) THEN NameParts("", "", "", "", "")
    ELSE LET removed == remove_title(full_name)
             title == removed[2]
             parts == Split(normalize_string(removed[1], FALSE))
             n == Len(parts)
         IN IF n = 0 THEN NameParts("", "", "", "", title)
            ELSE IF n = 1 THEN NameParts(parts[1], "", "", "", title)
            ELSE IF n = 2 THEN NameParts(parts[1], "", parts[2], "", title)
            ELSE IF n = 3
            THEN IF normalize_suffix(parts[3]) # "" /\ normalize_suffix(parts[3]) \in SuffixValues
                 THEN NameParts(parts[1], "", parts[2], parts[3], title)
                 ELSE NameParts(parts[1], parts[2], parts[3], "", title)
            ELSE LET last_part_clean == Remove(Lower(parts[n]), {".", ","})
                 IN IF last_part_clean \in DOMAIN SUFFIX_VARIATIONS \/ last_part_clean \in SuffixValues
                    THEN NameParts(parts[1], Join(SubSeq(parts, 2, n - 2)), parts[n - 1],
                                   parts[n], title)
                    ELSE NameParts(parts[1], Join(SubSeq(parts, 2, n - 1)), parts[n], "", title)

(***************************************************************************)
(* MatchingAgent._calculate_similarities                                   *)
(***************************************************************************)
\* ValidationAgent._standardize_formats: the columns derived from name
ValidatedRow(record_id, name, ssn_token) ==
    [record_id |-> record_id, name |-> name,
     name_suffix |-> parse_name(name).suffix,
     entity_type |-> extract_entity_type(name),
     ssn_token |-> ssn_token]

\* a frame without the name column
NamelessRow(record_id, ssn_token) == [record_id |-> record_id, ssn_token |-> ssn_token]

\* rec.get(column, '')
Get(rec, column) == IF column \in DOMAIN rec THEN rec[column] ELSE ""

\* 'name' in df.columns
HasColumn(frame, column) == \A i \in 1..Len(frame) : column \in DOMAIN frame[i]

\* SAFETY CHECK 1: the pair is skipped
EntityGate(frame, rec1, rec2) ==
    /\ HasColumn(frame, "name")
    /\ ~should_match_entities(extract_entity_type(Get(rec1, "name")),
                              extract_entity_type(Get(rec2, "name")),
                              Str(Get(rec1, "name")), Str(Get(rec2, "name")))

\* variant: differing suffixes are let through
SuffixesConflict_Never(suffix1_norm, suffix2_norm) == FALSE

\* if suffix1_norm and suffix2_norm and suffix1_norm != suffix2_norm
SuffixesConflict(suffix1_norm, suffix2_norm) ==
    suffix1_norm # "" /\ suffix2_norm # "" /\ suffix1_norm # suffix2_norm

SuffixNorm(rec) == normalize_suffix(parse_name(Get(rec, "name")).suffix)

\* SAFETY CHECK 2: the pair is skipped
SuffixGate(frame, rec1, rec2) ==
    /\ HasColumn(frame, "name")
    /\ SuffixesConflict(SuffixNorm(rec1), SuffixNorm(rec2))

\* variant: the fast path is never taken
SsnMatch_Never(rec1, rec2) == FALSE

\* FAST PATH: both SSN tokens present and equal
SsnMatch(rec1, rec2) ==
    /\ Get(rec1, "ssn_token") # ""
    /\ Get(rec2, "ssn_token") # ""
    /\ Get(rec1, "ssn_token") = Get(rec2, "ssn_token")

\* scores are in hundredths (a sub-score) and in ten-thousandths (the total)
SsnPair(rec1, rec2) ==
    [record_id_1 |-> rec1.record_id, record_id_2 |-> rec2.record_id,
     similarity_score |-> 10000, name_similarity |-> 100, address_similarity |-> 100,
     match_method |-> "ssn_exact"]

FuzzyPair(rec1, rec2, total, similarities) ==
    [record_id_1 |-> rec1.record_id, record_id_2 |-> rec2.record_id,
     similarity_score |-> total, name_similarity |-> similarities.name,
     address_similarity |-> similarities.address]

Max(a, b) == IF a >= b THEN a ELSE b
Min(a, b) == IF a <= b THEN a ELSE b

weights == [name |-> 40, address |-> 30, city |-> 10, state |-> 10, zip |-> 10]

\* what the fuzzy library returns for the normalized columns of the pair
\* (hundredths), and whether the first names differ enough for the penalty
FuzzLevels == {0, 85, 100}
FuzzInputs ==
    [base : FuzzLevels, nickname : FuzzLevels, address : FuzzLevels,
     city : FuzzLevels \cup {50}, state : {0, 50, 100}, zip : {0, 100},
     first_names_differ : BOOLEAN]

\* the sub-scores of one pair
Similarities(fuzz) ==
    [name |-> IF fuzz.nickname > fuzz.base /\ fuzz.nickname >= 90
              THEN Min(99, fuzz.nickname + 10)
              ELSE Max(fuzz.base, fuzz.nickname),
     address |-> fuzz.address, city |-> fuzz.city, state |-> fuzz.state, zip |-> fuzz.zip]

\* variant: no adjustment is clamped
TotalSimilarity_Unclamped(similarities, fuzz, suffix1_norm, suffix2_norm) ==
    LET weighted == similarities.name * weights.name
                    + similarities.address * weights.address
                    + similarities.city * weights.city
                    + similarities.state * weights.state
                    + similarities.zip * weights.zip
        first == IF fuzz.first_names_differ THEN weighted - 1500 ELSE weighted
        onesided == (suffix1_norm # "" /\ suffix2_norm = "") \/ (suffix2_norm # "" /\ suffix1_norm = "")
        suffixed == IF onesided THEN first - 1000 ELSE first
    IN IF similarities.zip = 100 /\ similarities.address >= 80 /\ similarities.name >= 80
       THEN suffixed + 1000
       ELSE suffixed

\* weighted average, penalties and bonus
TotalSimilarity(similarities, fuzz, suffix1_norm, suffix2_norm) ==
    LET weighted == similarities.name * weights.name
                    + similarities.address * weights.address
                    + similarities.city * weights.city
                    + similarities.state * weights.state
                    + similarities.zip * weights.zip
        first == IF fuzz.first_names_differ THEN Max(0, weighted - 1500) ELSE weighted
        onesided == (suffix1_norm # "" /\ suffix2_norm = "") \/ (suffix2_norm # "" /\ suffix1_norm = "")
        suffixed == IF onesided THEN Max(0, first - 1000) ELSE first
    IN IF similarities.zip = 100 /\ similarities.address >= 80 /\ similarities.name >= 80
       THEN Min(10000, suffixed + 1000)
       ELSE suffixed

\* one pass of the loop body: what the pair adds to duplicate_pairs
\* ("raise": suffix1_norm is read although no name column defined it)
PairOutcomes(frame, rec1, rec2) ==
    IF EntityGate(frame, rec1, rec2) THEN {<<>>}
    ELSE IF SuffixGate(frame, rec1, rec2) THEN {<<>>}
    ELSE IF SsnMatch(rec1, rec2) THEN {<<SsnPair(rec1, rec2)>>}
    ELSE IF ~HasColumn(frame, "name") THEN {"raise"}
    ELSE LET suffix1_norm == SuffixNorm(rec1)
             suffix2_norm == SuffixNorm(rec2)
             Scored(fuzz, s1, s2) ==
                 LET similarities == Similarities(fuzz)
                     total == TotalSimilarity(similarities, fuzz, s1, s2)
                 IN IF total >= config.similarity_threshold
                    THEN <<FuzzyPair(rec1, rec2, total, similarities)>>
                    ELSE <<>>
         IN {Scored(fuzz, suffix1_norm, suffix2_norm) : fuzz \in FuzzInputs}

\* _calculate_similarities(df, candidate_pairs) on the frame's one candidate pair
CalculateSimilarities ==
    /\ scoring = "idle"
    /\ Len(df) = 2
    /\ \E outcome \in PairOutcomes(df, df[1], df[2]) :
          IF outcome = "raise"
          THEN scoring' = "raised" /\ pairs' = <<>>
          ELSE scoring' = "returned" /\ pairs' = outcome
    /\ UNCHANGED <<df, config, ledgerVars, clusterVars, cacheVars, runVars>>

Names ==
    {"John Smith Jr", "John Smith Sr.", "John Smith", "Dr. John Smith Junior",
     "John A Smith III", "John Cooper Jr", "Smith Family Trust", "Acme Holdings LLC",
     "Memorial Radiology Dept", "Memorial Cardiology Dept",
     "Memorial Hosp  Radiology Department", NaN}
SsnTokens == {"", "tok_1", "tok_2"}

Frames ==
    {<<ValidatedRow(0, n1, s1), ValidatedRow(1, n2, s2)>> :
        n1 \in Names, n2 \in Names, s1 \in SsnTokens, s2 \in SsnTokens}
    \cup {<<NamelessRow(0, s1), NamelessRow(1, s2)>> : s1 \in SsnTokens, s2 \in SsnTokens}

\* config['similarity_threshold']: retain every pair, the default, and a
\* threshold that no score reaches
Thresholds == {0, similarity_threshold, 10001}

InitScorer ==
    /\ IdleLedger /\ IdleRun
    /\ df \in Frames
    /\ scoring = "idle"
    /\ pairs = <<>>
    /\ config \in [similarity_threshold : Thresholds]
    /\ IdleCache
    /\ IdleCluster

NextScorer == CalculateSimilarities

SpecScorer == InitScorer /\ [][NextScorer]_vars

(***************************************************************************)
(* The clusterer: MatchingAgent._cluster_duplicates (depth-first search)   *)
(* and skills.matching_skills.cluster_duplicates (union-find)              *)
(***************************************************************************)
NumRecords == 4       \* rows of the frame that is clustered
MaxPairs == 3         \* length of the duplicate_pairs list
RecursionLimit == 4   \* nested calls the interpreter allows (sys.getrecursionlimit(),
                      \* 1000 by default), scaled to the size of the frame

\* record_id = range(len(data)), also the frame's index
Records == 0..(NumRecords - 1)

\* cluster_id of a record in no cluster
Sentinel == -1

\* the elements of a set of record ids in ascending order (the order in
\* which CPython iterates a small set of small integers)
RECURSIVE Ascending(_)
Ascending(S) ==
    IF S = {} THEN <<>>
    ELSE LET least == CHOOSE x \in S : \A y \in S : x <= y
         IN <<least>> \o Ascending(S \ {least})

\* variant: only graph[id1].add(id2)
Graph_OneWay(duplicate_pairs) ==
    [node \in Records |->
        {other \in Records : \E i \in 1..Len(duplicate_pairs) :
            duplicate_pairs[i].record_id_1 = node /\ duplicate_pairs[i].record_id_2 = other}]

\* graph[id1].add(id2); graph[id2].add(id1)
Graph(duplicate_pairs) ==
    [node \in Records |->
        {other \in Records : \E i \in 1..Len(duplicate_pairs) :
            \/ duplicate_pairs[i].record_id_1 = node /\ duplicate_pairs[i].record_id_2 = other
            \/ duplicate_pairs[i].record_id_2 = node /\ duplicate_pairs[i].record_id_1 = other}]

\* graph.keys(): the record ids in the order the pairs first name them
RECURSIVE GraphKeys(_, _)
GraphKeys(duplicate_pairs, keys) ==
    IF duplicate_pairs = <<>> THEN keys
    ELSE LET id1 == Head(duplicate_pairs).record_id_1
             id2 == Head(duplicate_pairs).record_id_2
             k1 == IF id1 \in Range(keys) THEN keys ELSE Append(keys, id1)
             k2 == IF id2 \in Range(k1) THEN k1 ELSE Append(k1, id2)
         IN GraphKeys(Tail(duplicate_pairs), k2)

\* dfs(node, cluster) entered at the given call depth. walk: the visited
\* set, the cluster list and the deepest call so far
RECURSIVE Dfs(_, _, _, _)
RECURSIVE DfsNeighbors(_, _, _, _)
Dfs(graph, node, walk, depth) ==
    LET entered == [walk EXCEPT !.depth = IF depth > @ THEN depth ELSE @]
    IN IF node \in walk.visited THEN entered
       ELSE DfsNeighbors(graph, Ascending(graph[node]),
                         [entered EXCEPT !.visited = @ \cup {node},
                                         !.cluster = Append(@, node)],
                         depth + 1)

\* for neighbor in graph[node]: dfs(neighbor, cluster)
DfsNeighbors(graph, neighbors, walk, depth) ==
    IF neighbors = <<>> THEN walk
    ELSE DfsNeighbors(graph, Tail(neighbors), Dfs(graph, Head(neighbors), walk, depth), depth)

\* for record_id in graph.keys(): a new cluster for every record not visited
RECURSIVE AssignClusters(_, _, _)
AssignClusters(graph, keys, st) ==
    IF keys = <<>> THEN st
    ELSE IF Head(keys) \in st.visited THEN AssignClusters(graph, Tail(keys), st)
    ELSE LET walk == Dfs(graph, Head(keys),
                         [visited |-> st.visited, cluster |-> <<>>, depth |-> st.depth], 1)
         IN AssignClusters(graph, Tail(keys),
                [visited |-> walk.visited,
                 depth |-> walk.depth,
                 next |-> st.next + 1,
                 cluster_id |-> [r \in Records |->
                                    IF r \in Range(walk.cluster) THEN st.next
                                    ELSE st.cluster_id[r]]])

\* the highest similarity_score of the pairs that name the record, 0 if none
BestScore(duplicate_pairs, r) ==
    LET scores == {duplicate_pairs[i].similarity_score : i \in
                     {j \in 1..Len(duplicate_pairs) :
                         duplicate_pairs[j].record_id_1 = r \/ duplicate_pairs[j].record_id_2 = r}}
    IN IF scores = {} THEN 0 ELSE CHOOSE x \in scores : \A y \in scores : y <= x

\* MatchingAgent._cluster_duplicates(df, duplicate_pairs)
ClusterAgent(duplicate_pairs) ==
    LET st == AssignClusters(Graph(duplicate_pairs), GraphKeys(duplicate_pairs, <<>>),
                             [visited |-> {}, depth |-> 0, next |-> 0,
                              cluster_id |-> [r \in Records |-> Sentinel]])
    IN IF st.depth > RecursionLimit
       THEN [status |-> "raised", impl |-> "agent"]
       ELSE [status |-> "returned", impl |-> "agent",
             cluster_id |-> st.cluster_id,
             similarity_score |-> [r \in Records |-> BestScore(duplicate_pairs, r)]]

\* UnionFind.find(x) with path compression; depth: the nested calls it made
RECURSIVE Find(_, _)
Find(parent, x) ==
    LET known == IF x \in DOMAIN parent THEN parent ELSE parent @@ (x :> x)
    IN IF known[x] = x THEN [parent |-> known, root |-> x, depth |-> 1]
       ELSE LET up == Find(known, known[x])
            IN [parent |-> [up.parent EXCEPT ![x] = up.root],
                root |-> up.root, depth |-> up.depth + 1]

\* UnionFind.union(x, y). uf: the parent map and the deepest find so far
Union(uf, x, y) ==
    LET px == Find(uf.parent, x)
        py == Find(px.parent, y)
        deepest == Max(uf.depth, Max(px.depth, py.depth))
    IN [parent |-> IF px.root # py.root
                   THEN [py.parent EXCEPT ![px.root] = py.root] ELSE py.parent,
        depth |-> deepest]

\* for idx1, idx2 in duplicate_pairs: uf.union(idx1, idx2)
RECURSIVE UnionAll(_, _)
UnionAll(uf, duplicate_pairs) ==
    IF duplicate_pairs = <<>> THEN uf
    ELSE UnionAll(Union(uf, Head(duplicate_pairs).record_id_1,
                        Head(duplicate_pairs).record_id_2),
                  Tail(duplicate_pairs))

\* df.index.map(lambda x: uf.find(x) if x in uf.parent else -1), in index order
RECURSIVE MapIndex(_, _, _)
MapIndex(uf, index, ids) ==
    IF index = <<>> THEN [uf |-> uf, cluster_id |-> ids]
    ELSE LET x == Head(index)
         IN IF x \in DOMAIN uf.parent
            THEN LET found == Find(uf.parent, x)
                 IN MapIndex([parent |-> found.parent, depth |-> Max(uf.depth, found.depth)],
                             Tail(index), [ids EXCEPT ![x] = found.root])
            ELSE MapIndex(uf, Tail(index), ids)

\* skills.matching_skills.cluster_duplicates(df, duplicate_pairs)
ClusterSkill(duplicate_pairs) ==
    LET uf == UnionAll([parent |-> <<>>, depth |-> 0], duplicate_pairs)
        mapped == MapIndex(uf, Ascending(Records), [r \in Records |-> Sentinel])
    IN IF mapped.uf.depth > RecursionLimit
       THEN [status |-> "raised", impl |-> "skill"]
       ELSE [status |-> "returned", impl |-> "skill", cluster_id |-> mapped.cluster_id]

ClusterDuplicatesAgent ==
    /\ clustered.status = "idle"
    /\ clustered' = ClusterAgent(retained)
    /\ UNCHANGED <<retained, ledgerVars, scorerVars, cacheVars, runVars>>

ClusterDuplicatesSkill ==
    /\ clustered.status = "idle"
    /\ clustered' = ClusterSkill(retained)
    /\ UNCHANGED <<retained, ledgerVars, scorerVars, cacheVars, runVars>>

\* the pairs the scorer can retain: two different records, the lower id first
RecordPairs == {<<a, b>> \in Records \X Records : a < b}

\* neighbouring records are exact matches, the others pass the threshold
RetainedPair(p) ==
    [record_id_1 |-> p[1], record_id_2 |-> p[2],
     similarity_score |-> IF p[2] = p[1] + 1 THEN 10000 ELSE similarity_threshold]

\* the lists of up to MaxPairs different pairs, in every order
PairLists ==
    UNION {{[i \in 1..k |-> RetainedPair(order[i])] :
                order \in {o \in [1..k -> RecordPairs] :
                              \A i, j \in 1..k : i # j => o[i] # o[j]}} :
           k \in 0..MaxPairs}

InitCluster ==
    /\ IdleLedger /\ IdleRun
    /\ IdleScorer
    /\ retained \in PairLists
    /\ clustered = [status |-> "idle"]
    /\ IdleCache

NextCluster ==
    \/ ClusterDuplicatesAgent
    \/ ClusterDuplicatesSkill

SpecCluster == InitCluster /\ [][NextCluster]_vars

(***************************************************************************)
(* utils/cache.py: FuzzyMatchCache and NormalizationCache. The hit and     *)
(* miss counters only feed get_stats and are left out.                     *)
(***************************************************************************)
max_size == 3   \* max_size of both caches (defaults: 50000 and 10000)

\* the characters of the strings used, in code point order
CodePoints == " -.01:_abcdefghijklmnopqrstuvwxyz|"
CodePoint(c) == CHOOSE i \in 1..Len(CodePoints) : SubSeq(CodePoints, i, i) = c

\* str1 > str2
RECURSIVE Greater(_, _)
Greater(str1, str2) ==
    IF str1 = "" THEN FALSE
    ELSE IF str2 = "" THEN TRUE
    ELSE LET c1 == CodePoint(SubSeq(str1, 1, 1))
             c2 == CodePoint(SubSeq(str2, 1, 1))
         IN IF c1 # c2 THEN c1 > c2
            ELSE Greater(SubSeq(str1, 2, Len(str1)), SubSeq(str2, 2, Len(str2)))

\* FuzzyMatchCache._make_key: f"{str1}|{str2}" of the sorted pair. The md5
\* hexdigest of that string is taken to be one-to-one, so the joined string
\* stands for it
make_key(str1, str2) ==
    IF Greater(str1, str2) THEN str2 \o "|" \o str1 ELSE str1 \o "|" \o str2

\* the keys of the compared pairs, computed once
KeyOf == [p \in ComparedPairs |-> make_key(p[1], p[2])]

\* an OrderedDict is the sequence of its items, oldest first
Keys(od) == {od[i].key : i \in 1..Len(od)}

\* od[key]
Item(od, key) == od[CHOOSE i \in 1..Len(od) : od[i].key = key].value

\* od.move_to_end(key)
MoveToEnd(od, key) ==
    SelectSeq(od, LAMBDA e : e.key # key) \o <<[key |-> key, value |-> Item(od, key)]>>

\* od[key] = value: a present key keeps its place, a new one goes last
SetItem(od, key, value) ==
    IF key \in Keys(od)
    THEN [i \in 1..Len(od) |-> IF od[i].key = key THEN [key |-> key, value |-> value] ELSE od[i]]
    ELSE Append(od, [key |-> key, value |-> value])

\* the key that put removes: if len(cache) >= self.max_size: cache.popitem(last=False)
Evicted(od) == IF Len(od) >= max_size THEN od[1].key ELSE None

\* variant: nothing is removed
Put_NoEviction(od, key, value) == SetItem(od, key, value)

\* put: remove the oldest item at capacity, then store
Put(od, key, value) ==
    SetItem(IF Len(od) >= max_size THEN Tail(od) ELSE od, key, value)

\* history: the key becomes the most recently accessed one
Touch(keys, key) == SelectSeq(keys, LAMBDA k : k # key) \o <<key>>

\* history: the least recently accessed key
Oldest(keys) == IF keys = <<>> THEN None ELSE keys[1]

\* FuzzyMatchCache.get on a hit
FuzzyLookup(key) ==
    /\ fuzzy_cache' = MoveToEnd(fuzzy_cache, key)
    /\ accessed' = [accessed EXCEPT !.fuzzy = Touch(@, key)]
    /\ UNCHANGED stored

\* FuzzyMatchCache.put(str1, str2, score), key = self._make_key(str1, str2)
FuzzyStore(key, str1, str2, score) ==
    LET evicted == Evicted(fuzzy_cache)
    IN /\ fuzzy_cache' = Put(fuzzy_cache, key, score)
       /\ accessed' = [accessed EXCEPT
              !.fuzzy = Touch(SelectSeq(@, LAMBDA k : k # evicted), key)]
       /\ stored' = [p \in ComparedPairs |->
              IF p = <<str1, str2>> \/ p = <<str2, str1>> THEN {score}
              ELSE IF KeyOf[p] = evicted THEN {}
              ELSE stored[p]]

FuzzyGet(str1, str2) ==
    LET key == KeyOf[<<str1, str2>>]
    IN /\ instance = "FuzzyMatchCache"
       /\ IF key \in Keys(fuzzy_cache)
          THEN /\ FuzzyLookup(key)
               /\ answer' = [call |-> "get", cache |-> "fuzzy", args |-> <<str1, str2>>,
                             value |-> Item(fuzzy_cache, key)]
          ELSE /\ answer' = [call |-> "get", cache |-> "fuzzy", args |-> <<str1, str2>>,
                             value |-> None]
               /\ UNCHANGED <<fuzzy_cache, accessed, stored>>
       /\ UNCHANGED <<instance, caches, ledgerVars, scorerVars, clusterVars, runVars>>

FuzzyPut(str1, str2, score) ==
    /\ instance = "FuzzyMatchCache"
    /\ FuzzyStore(KeyOf[<<str1, str2>>], str1, str2, score)
    /\ answer' = [call |-> "put", cache |-> "fuzzy", args |-> <<str1, str2>>,
                  evicted |-> Evicted(fuzzy_cache), oldest |-> Oldest(accessed.fuzzy)]
    /\ UNCHANGED <<instance, caches, ledgerVars, scorerVars, clusterVars, runVars>>

\* NormalizationCache.get on a hit
NormLookup(field_type, value) ==
    /\ caches' = [caches EXCEPT ![field_type] = MoveToEnd(@, value)]
    /\ accessed' = [accessed EXCEPT ![field_type] = Touch(@, value)]

\* NormalizationCache.put(field_type, value, normalized) for a known field type
NormStore(field_type, value, normalized) ==
    /\ caches' = [caches EXCEPT ![field_type] = Put(@, value, normalized)]
    /\ accessed' = [accessed EXCEPT ![field_type] =
           Touch(SelectSeq(@, LAMBDA k : k # Evicted(caches[field_type])), value)]

NormGet(field_type, value) ==
    /\ instance = "NormalizationCache"
    /\ IF field_type \in DOMAIN caches /\ value \in Keys(caches[field_type])
       THEN /\ NormLookup(field_type, value)
            /\ answer' = [call |-> "get", cache |-> field_type, args |-> <<value>>,
                          value |-> Item(caches[field_type], value)]
       ELSE /\ answer' = [call |-> "get", cache |-> field_type, args |-> <<value>>,
                          value |-> None]
            /\ UNCHANGED <<caches, accessed>>
    /\ UNCHANGED <<instance, fuzzy_cache, stored, ledgerVars, scorerVars, clusterVars, runVars>>

NormPut(field_type, value, normalized) ==
    /\ instance = "NormalizationCache"
    /\ IF field_type \in DOMAIN caches
       THEN /\ NormStore(field_type, value, normalized)
            /\ answer' = [call |-> "put", cache |-> field_type, args |-> <<value>>,
                          evicted |-> Evicted(caches[field_type]),
                          oldest |-> Oldest(accessed[field_type])]
       ELSE /\ answer' = [call |-> "put", cache |-> field_type, args |-> <<value>>,
                          evicted |-> None, oldest |-> None]
            /\ UNCHANGED <<caches, accessed>>
    /\ UNCHANGED <<instance, fuzzy_cache, stored, ledgerVars, scorerVars, clusterVars, runVars>>

(***************************************************************************)
(* The caches' specification: any sequence of get and put calls on one     *)
(* cache object                                                            *)
(***************************************************************************)
\* scores put into the fuzzy cache, in hundredths
Scores == {50, 85}

\* (field_type, value) arguments of the normalization cache; "zip" is a
\* field type the cache does not know
NormArgs ==
    {<<"name", v>> : v \in {"w", "x", "y", "z"}} \cup {<<"address", "x">>, <<"zip", "x">>}

InitCacheApi ==
    /\ IdleLedger /\ IdleRun /\ IdleScorer /\ IdleCluster
    /\ instance \in {"FuzzyMatchCache", "NormalizationCache"}
    /\ EmptyCaches

NextCacheApi ==
    \/ \E p \in ComparedPairs : FuzzyGet(p[1], p[2])
    \/ \E p \in ComparedPairs, score \in Scores : FuzzyPut(p[1], p[2], score)
    \/ \E a \in NormArgs : NormGet(a[1], a[2])
    \/ \E a \in NormArgs : NormPut(a[1], a[2], "n")

SpecCacheApi == InitCacheApi /\ [][NextCacheApi]_vars

(***************************************************************************)
(* The cached helpers: MatchingAgent._cached_fuzz_ratio,                   *)
(* MatchingAgent._cached_fuzz_token_sort_ratio and helpers.normalize_address*)
(* on the global caches                                                    *)
(***************************************************************************)
\* int(round(n / d)), Python's round-half-to-even
Round(n, d) ==
    LET q == n \div d
        r == n % d
    IN IF 2 * r < d THEN q
       ELSE IF 2 * r > d THEN q + 1
       ELSE IF q % 2 = 0 THEN q ELSE q + 1

\* length of the longest common subsequence of two strings
RECURSIVE Lcs(_, _)
Lcs(str1, str2) ==
    IF str1 = "" \/ str2 = "" THEN 0
    ELSE IF SubSeq(str1, 1, 1) = SubSeq(str2, 1, 1)
    THEN 1 + Lcs(SubSeq(str1, 2, Len(str1)), SubSeq(str2, 2, Len(str2)))
    ELSE Max(Lcs(SubSeq(str1, 2, Len(str1)), str2), Lcs(str1, SubSeq(str2, 2, Len(str2))))

\* fuzz.ratio(str1, str2) of two non-empty strings, 0..100: the rounded
\* share of the characters of both strings that lie in a common subsequence
fuzz_ratio(str1, str2) == Round(200 * Lcs(str1, str2), Len(str1) + Len(str2))

\* \w: letters, digits and the underscore
WordChars ==
    {SubSeq(LowerCase, i, i) : i \in 1..Len(LowerCase)}
    \cup {SubSeq(UpperCase, i, i) : i \in 1..Len(UpperCase)}
    \cup DigitChars \cup {"_"}

\* thefuzz's full_process: characters that are no letters or digits become
\* spaces, then lower() and strip()
RECURSIVE Blanked(_)
Blanked(str) ==
    IF str = "" THEN ""
    ELSE (IF SubSeq(str, 1, 1) \in WordChars \ {"_"} THEN SubSeq(str, 1, 1) ELSE " ")
            \o Blanked(SubSeq(str, 2, Len(str)))

full_process(str) == Strip(Lower(Blanked(str)))

\* sorted(tokens)
RECURSIVE Sorted(_)
Sorted(tokens) ==
    IF tokens = <<>> THEN <<>>
    ELSE LET least == CHOOSE i \in 1..Len(tokens) :
                          \A j \in 1..Len(tokens) : ~Greater(tokens[i], tokens[j])
         IN <<tokens[least]>>
            \o Sorted(SubSeq(tokens, 1, least - 1) \o SubSeq(tokens, least + 1, Len(tokens)))

\* fuzz.token_sort_ratio(str1, str2), 0..100
fuzz_token_sort_ratio(str1, str2) ==
    LET sorted1 == Join(Sorted(Split(full_process(str1))))
        sorted2 == Join(Sorted(Split(full_process(str2))))
    IN IF sorted1 = "" \/ sorted2 = "" THEN 0 ELSE fuzz_ratio(sorted1, sorted2)

\* re.sub(r'\bword\b', replacement, addr): every maximal run of word
\* characters that equals the word is replaced. done: the text already
\* rewritten, run: the run of word characters being read
RECURSIVE SubWord(_, _, _, _, _)
SubWord(word, replacement, addr, done, run) ==
    LET closed == done \o (IF run = word THEN replacement ELSE run)
    IN IF addr = "" THEN closed
       ELSE IF SubSeq(addr, 1, 1) \in WordChars
       THEN SubWord(word, replacement, SubSeq(addr, 2, Len(addr)), done, run \o SubSeq(addr, 1, 1))
       ELSE SubWord(word, replacement, SubSeq(addr, 2, Len(addr)),
                    closed \o SubSeq(addr, 1, 1), "")

\* the address abbreviations, in the order of the dict
replacements ==
    <<<<"street", "st">>, <<"strt", "st">>, <<"avenue", "ave">>, <<"av", "ave">>,
      <<"boulevard", "blvd">>, <<"blv", "blvd">>, <<"drive", "dr">>, <<"road", "rd">>,
      <<"lane", "ln">>, <<"court", "ct">>, <<"circle", "cir">>, <<"place", "pl">>,
      <<"parkway", "pkwy">>, <<"apartment", "apt">>, <<"suite", "ste">>,
      <<"north", "n">>, <<"south", "s">>, <<"east", "e">>, <<"west", "w">>>>

\* for pattern, replacement in replacements.items(): addr = re.sub(...)
RECURSIVE Abbreviate(_, _)
Abbreviate(addr, table) ==
    IF table = <<>> THEN addr
    ELSE Abbreviate(SubWord(Head(table)[1], Head(table)[2], addr, "", ""), Tail(table))

\* re.sub(r'[^\w\s\-]', '', addr)
RECURSIVE RemovePunctuation(_)
RemovePunctuation(addr) ==
    IF addr = "" THEN ""
    ELSE (IF SubSeq(addr, 1, 1) \in WordChars \cup Whitespace \cup {"-"}
          THEN SubSeq(addr, 1, 1) ELSE "")
            \o RemovePunctuation(SubSeq(addr, 2, Len(addr)))

\* normalize_address without the cache: what lines 120-153 compute
normalize_address_uncached(address) ==
    IF IsNa(address) THEN ""
    ELSE Strip(CollapseSpaces(RemovePunctuation(
             Abbreviate(normalize_string(address, TRUE), replacements))))

\* the addresses normalized, the names compared by token_sort_ratio
Addresses == {"1 Main Street", "1 main st.", "1 North-West Av", NaN}
TokenPairs == {<<"a b", "b a">>, <<"b a", "a b">>, <<"a b", "a">>}

\* what the helpers return when no cache is available, computed once
Ratio == [p \in ComparedPairs |-> fuzz_ratio(p[1], p[2])]
TokenSortRatio == [p \in TokenPairs |-> fuzz_token_sort_ratio(p[1], p[2])]
NormalizedAddress == [address \in Addresses |-> normalize_address_uncached(address)]

\* cache_key1 = f"token_sort:{str1}", cache_key2 = f"token_sort:{str2}" and
\* the cache's key for them, computed once
TokenSortKeys ==
    [p \in TokenPairs |->
        [cache_key1 |-> "token_sort:" \o p[1], cache_key2 |-> "token_sort:" \o p[2],
         key |-> make_key("token_sort:" \o p[1], "token_sort:" \o p[2])]]

\* str(address), computed once
AddressKey == [address \in Addresses |-> Str(address)]

\* MatchingAgent._cached_fuzz_ratio(str1, str2); scores in hundredths
CachedFuzzRatio(str1, str2) ==
    LET key == KeyOf[<<str1, str2>>]
        score == Ratio[<<str1, str2>>]
    IN /\ instance = "global"
       /\ IF key \in Keys(fuzzy_cache)
          THEN /\ FuzzyLookup(key)
               /\ answer' = [call |-> "_cached_fuzz_ratio", args |-> <<str1, str2>>,
                             value |-> Item(fuzzy_cache, key), hit |-> TRUE]
          ELSE /\ FuzzyStore(key, str1, str2, score)
               /\ answer' = [call |-> "_cached_fuzz_ratio", args |-> <<str1, str2>>,
                             value |-> score, hit |-> FALSE]
       /\ UNCHANGED <<instance, caches, ledgerVars, scorerVars, clusterVars, runVars>>

\* MatchingAgent._cached_fuzz_token_sort_ratio(str1, str2)
CachedFuzzTokenSortRatio(str1, str2) ==
    LET cache_key1 == TokenSortKeys[<<str1, str2>>].cache_key1
        cache_key2 == TokenSortKeys[<<str1, str2>>].cache_key2
        key == TokenSortKeys[<<str1, str2>>].key
        score == TokenSortRatio[<<str1, str2>>]
    IN /\ instance = "global"
       /\ IF key \in Keys(fuzzy_cache)
          THEN /\ FuzzyLookup(key)
               /\ answer' = [call |-> "_cached_fuzz_token_sort_ratio", args |-> <<str1, str2>>,
                             value |-> Item(fuzzy_cache, key), hit |-> TRUE]
          ELSE /\ FuzzyStore(key, cache_key1, cache_key2, score)
               /\ answer' = [call |-> "_cached_fuzz_token_sort_ratio", args |-> <<str1, str2>>,
                             value |-> score, hit |-> FALSE]
       /\ UNCHANGED <<instance, caches, ledgerVars, scorerVars, clusterVars, runVars>>

\* helpers.normalize_address(address)
NormalizeAddress(address) ==
    /\ instance = "global"
    /\ IF IsNa(address)
       THEN /\ answer' = [call |-> "normalize_address", args |-> <<address>>,
                          value |-> "", hit |-> FALSE]
            /\ UNCHANGED <<caches, accessed>>
       ELSE IF AddressKey[address] \in Keys(caches.address)
       THEN /\ NormLookup("address", AddressKey[address])
            /\ answer' = [call |-> "normalize_address", args |-> <<address>>,
                          value |-> Item(caches.address, AddressKey[address]), hit |-> TRUE]
       ELSE /\ NormStore("address", AddressKey[address], NormalizedAddress[address])
            /\ answer' = [call |-> "normalize_address", args |-> <<address>>,
                          value |-> NormalizedAddress[address], hit |-> FALSE]
    /\ UNCHANGED <<instance, fuzzy_cache, stored, ledgerVars, scorerVars, clusterVars, runVars>>

InitHelpers ==
    /\ IdleLedger /\ IdleRun /\ IdleScorer /\ IdleCluster
    /\ instance = "global"
    /\ EmptyCaches

NextHelpers ==
    \/ \E p \in ComparedPairs : CachedFuzzRatio(p[1], p[2])
    \/ \E p \in TokenPairs : CachedFuzzTokenSortRatio(p[1], p[2])
    \/ \E address \in Addresses : NormalizeAddress(address)

SpecHelpers == InitHelpers /\ [][NextHelpers]_vars

(***************************************************************************)
(* Scorer workers on the shared FuzzyMatchCache: get_fuzzy_match_cache()   *)
(* hands every caller the one global instance, and get and put take no     *)
(* lock, so the statements of two calls interleave. Each OrderedDict       *)
(* operation is one step                                                   *)
(***************************************************************************)
\* the pairs the workers score; no two of them collide on a key
WorkerPairs == {<<"a", "b">>, <<"b", "a">>, <<"a", "a">>, <<"b", "b">>, <<"a", "a|b">>}

WorkerAt(w, pc) == workers[w].pc = pc /\ instance = "shared"

WorkerGoes(w, pc) ==
    /\ workers' = [workers EXCEPT ![w].pc = pc]
    /\ UNCHANGED fuzzy_cache

WorkerReturns(w, call, status, value) ==
    workers' = [workers EXCEPT ![w] =
        [pc |-> "idle", args |-> <<>>,
         outcome |-> [call |-> call, args |-> workers[w].args, status |-> status, value |-> value]]]

WorkerFrame ==
    UNCHANGED <<instance, caches, accessed, stored, answer, blocking, merging, compared, normalizing, undoers, workflow, ledgerVars, scorerVars, clusterVars>>

\* a worker enters get(str1, str2) or put(str1, str2, score): key = self._make_key(str1, str2)
WorkerCall(w, call, str1, str2) ==
    /\ WorkerAt(w, "idle")
    /\ workers' = [workers EXCEPT ![w] =
           [pc |-> IF call = "get" THEN "get_contains" ELSE "put_len",
            args |-> <<str1, str2>>, outcome |-> [status |-> "none"]]]
    /\ UNCHANGED fuzzy_cache
    /\ WorkerFrame

\* get: if key in self.cache: ... else: self.misses += 1; return None
GetContains(w) ==
    /\ WorkerAt(w, "get_contains")
    /\ IF KeyOf[workers[w].args] \in Keys(fuzzy_cache)
       THEN WorkerGoes(w, "get_move_to_end")
       ELSE WorkerReturns(w, "get", "returned", {}) /\ UNCHANGED fuzzy_cache
    /\ WorkerFrame

\* get: self.cache.move_to_end(key), a KeyError when the key is gone
GetMoveToEnd(w) ==
    LET key == KeyOf[workers[w].args]
    IN /\ WorkerAt(w, "get_move_to_end")
       /\ IF key \in Keys(fuzzy_cache)
          THEN /\ fuzzy_cache' = MoveToEnd(fuzzy_cache, key)
               /\ workers' = [workers EXCEPT ![w].pc = "get_item"]
          ELSE WorkerReturns(w, "get", "raised", {"KeyError"}) /\ UNCHANGED fuzzy_cache
       /\ WorkerFrame

\* get: return self.cache[key], a KeyError when the key is gone
GetItem(w) ==
    LET key == KeyOf[workers[w].args]
    IN /\ WorkerAt(w, "get_item")
       /\ IF key \in Keys(fuzzy_cache)
          THEN WorkerReturns(w, "get", "returned", {Item(fuzzy_cache, key)})
          ELSE WorkerReturns(w, "get", "raised", {"KeyError"})
       /\ UNCHANGED fuzzy_cache
       /\ WorkerFrame

\* put: if len(self.cache) >= self.max_size
PutLen(w) ==
    /\ WorkerAt(w, "put_len")
    /\ WorkerGoes(w, IF Len(fuzzy_cache) >= max_size THEN "put_popitem" ELSE "put_setitem")
    /\ WorkerFrame

\* put: self.cache.popitem(last=False), a KeyError on an empty dictionary
PutPopitem(w) ==
    /\ WorkerAt(w, "put_popitem")
    /\ IF fuzzy_cache # <<>>
       THEN /\ fuzzy_cache' = Tail(fuzzy_cache)
            /\ workers' = [workers EXCEPT ![w].pc = "put_setitem"]
       ELSE WorkerReturns(w, "put", "raised", {"KeyError"}) /\ UNCHANGED fuzzy_cache
    /\ WorkerFrame

\* put: self.cache[key] = score; the score is the ratio the scorer computed
PutSetItem(w) ==
    /\ WorkerAt(w, "put_setitem")
    /\ fuzzy_cache' = SetItem(fuzzy_cache, KeyOf[workers[w].args], Ratio[workers[w].args])
    /\ WorkerReturns(w, "put", "returned", {})
    /\ WorkerFrame

InitWorkers ==
    /\ IdleLedger /\ IdleRun /\ IdleScorer /\ IdleCluster
    /\ instance = "shared"
    /\ EmptyCaches

NextWorkers ==
    \/ \E w \in Workers, p \in WorkerPairs : WorkerCall(w, "get", p[1], p[2])
    \/ \E w \in Workers, p \in WorkerPairs : WorkerCall(w, "put", p[1], p[2])
    \/ \E w \in Workers : GetContains(w)
    \/ \E w \in Workers : GetMoveToEnd(w)
    \/ \E w \in Workers : GetItem(w)
    \/ \E w \in Workers : PutLen(w)
    \/ \E w \in Workers : PutPopitem(w)
    \/ \E w \in Workers : PutSetItem(w)

SpecWorkers == InitWorkers /\ [][NextWorkers]_vars

(***************************************************************************)
(* The blocking index: SmartBlockingStrategy.generate_candidate_pairs      *)
(* (utils/smart_blocking.py), called by MatchingAgent._generate_candidate_ *)
(* pairs with the configured MAX_MISSING_DATA_PAIRS. The frame has the     *)
(* default RangeIndex 0..n-1; row i of the frame is df[i + 1]              *)
(***************************************************************************)
MaxRows == 4       \* rows of the frame handed to the blocking index

\* SmartBlockingStrategy.__init__: the default budget of the fallback
max_missing_data_pairs == 50000

\* df[col].notna() & (df[col] != '')
Present(value) == value # NaN /\ value # ""

Index(frame) == 0..(Len(frame) - 1)

Cell(frame, i, column) == frame[i + 1][column]

\* recordlinkage's Index().block(key).index(valid): the pairs of rows of
\* valid with equal keys, each pair once, the later row first
BlockOn(valid, key(_)) ==
    {p \in valid \X valid : p[1] > p[2] /\ key(p[1]) = key(p[2])}

_block_by_ssn_token(frame) ==
    BlockOn({i \in Index(frame) : Present(Cell(frame, i, "ssn_token"))},
            LAMBDA i : Cell(frame, i, "ssn_token"))

\* state + ZIP where any row has both, else state + city, else state alone
_block_by_state(frame) ==
    LET has(i, c) == Present(Cell(frame, i, c))
        state_zip == {i \in Index(frame) : has(i, "state") /\ has(i, "zip")}
        state_city == {i \in Index(frame) : has(i, "state") /\ has(i, "city")}
        valid_state == {i \in Index(frame) : has(i, "state")}
    IN IF state_zip # {}
       THEN BlockOn(state_zip, LAMBDA i : Str(Cell(frame, i, "state")) \o "|" \o Str(Cell(frame, i, "zip")))
       ELSE IF state_city # {}
       THEN BlockOn(state_city, LAMBDA i : Str(Cell(frame, i, "state")) \o "|" \o Str(Cell(frame, i, "city")))
       ELSE BlockOn(valid_state, LAMBDA i : Cell(frame, i, "state"))

_block_by_zip(frame) ==
    BlockOn({i \in Index(frame) : Present(Cell(frame, i, "zip"))}, LAMBDA i : Cell(frame, i, "zip"))

\* only the rows that miss the state or the ZIP code
_block_by_city(frame) ==
    LET missing_geo == {i \in Index(frame) :
            ~Present(Cell(frame, i, "state")) \/ ~Present(Cell(frame, i, "zip"))}
    IN BlockOn({i \in missing_geo : Present(Cell(frame, i, "city"))}, LAMBDA i : Cell(frame, i, "city"))

\* phone.astype(str).str.replace(r'\D', '').str[:6]
phone_prefix(phone) ==
    LET digits == OnlyDigits(Str(phone))
    IN IF Len(digits) > 6 THEN SubSeq(digits, 1, 6) ELSE digits

_block_by_phone_prefix(frame) ==
    BlockOn({i \in Index(frame) : Len(phone_prefix(Cell(frame, i, "phone"))) >= 6},
            LAMBDA i : phone_prefix(Cell(frame, i, "phone")))

\* covered_indices: the rows that occur in a pair
Covered(pair_set) == {p[1] : p \in pair_set} \cup {p[2] : p \in pair_set}

\* all_indices[::step]
Sampled(n, step) == {i \in 0..(n - 1) : i % step = 0}

\* the two nested loops of the fallback, as the sequence of their iterations
RECURSIVE Iterations(_, _)
Iterations(uncovered, others) ==
    IF uncovered = {} THEN <<>>
    ELSE LET unc_idx == CHOOSE i \in uncovered : \A j \in uncovered : i <= j
             RECURSIVE Inner(_)
             Inner(rest) ==
                 IF rest = {} THEN <<>>
                 ELSE LET other_idx == CHOOSE i \in rest : \A j \in rest : i <= j
                      IN <<<<unc_idx, other_idx>>>> \o Inner(rest \ {other_idx})
         IN Inner(others) \o Iterations(uncovered \ {unc_idx}, others)

\* one iteration after the other: add the pair unless the row meets
\* itself, then return early once len(limited_pairs) >= max_missing_data_pairs
RECURSIVE FallbackLoop(_, _, _)
FallbackLoop(iterations, limited_pairs, budget) ==
    IF iterations = <<>> THEN limited_pairs
    ELSE LET unc_idx == iterations[1][1]
             other_idx == iterations[1][2]
             added == IF unc_idx # other_idx
                      THEN limited_pairs \cup {<<Min(unc_idx, other_idx), Max(unc_idx, other_idx)>>}
                      ELSE limited_pairs
         IN IF Cardinality(added) >= budget THEN added
            ELSE FallbackLoop(Tail(iterations), added, budget)

_limited_missing_data_fallback(frame, existing_pairs, budget) ==
    LET uncovered == Index(frame) \ Covered(existing_pairs)
        n == Len(frame)
    IN IF uncovered = {} THEN {}
       ELSE LET max_comparisons_per_record == Min(100, n)
                step == Max(1, n \div max_comparisons_per_record)
            IN FallbackLoop(Iterations(uncovered, Sampled(n, step)), {}, budget)

\* strategies 1 to 5, each adding its pairs to all_pairs
BlockedPairs(frame) ==
    _block_by_ssn_token(frame) \cup _block_by_state(frame) \cup _block_by_zip(frame)
        \cup _block_by_city(frame) \cup _block_by_phone_prefix(frame)

\* MatchingAgent._generate_candidate_pairs -> generate_candidate_pairs(df)
GenerateCandidatePairs ==
    /\ blocking.status = "called"
    /\ LET existing == BlockedPairs(blocking.df)
           fallback == _limited_missing_data_fallback(blocking.df, existing, blocking.max_missing_data_pairs)
       IN blocking' = [blocking EXCEPT !.status = "returned", !.existing = existing,
                                       !.fallback = fallback, !.pairs = existing \cup fallback]
    /\ UNCHANGED <<workers, merging, compared, normalizing, undoers, workflow, ledgerVars, scorerVars, clusterVars, cacheVars>>

BlockRow(ssn_token, state, zip, city, phone) ==
    [ssn_token |-> ssn_token, state |-> state, zip |-> zip, city |-> city, phone |-> phone]

\* the kinds of rows: one without any blocking key, and one per strategy
BlockRows ==
    {BlockRow("", "", NaN, "", NaN),
     BlockRow("tok1", "", "", "", ""),
     BlockRow("", "TX", "75001", "Dallas", ""),
     BlockRow("", "", "75001", "", ""),
     BlockRow("", "TX", "", "Dallas", ""),
     BlockRow("", "", "", "", "(555) 123-4567")}

BlockFrames == UNION {[1..n -> BlockRows] : n \in 1..MaxRows}

Budgets == {0, 1, 2, max_missing_data_pairs}

InitBlocking ==
    /\ IdleLedger /\ IdleUndoers /\ IdleWorkflow /\ IdleWorkers /\ IdleMerging /\ IdleCompared /\ IdleNormalized /\ IdleScorer /\ IdleCluster /\ IdleCache
    /\ \E frame \in BlockFrames, budget \in Budgets :
          blocking = [status |-> "called", df |-> frame, max_missing_data_pairs |-> budget,
                      existing |-> {}, fallback |-> {}, pairs |-> {}]

NextBlocking == GenerateCandidatePairs

SpecBlocking == InitBlocking /\ [][NextBlocking]_vars

(***************************************************************************)
(* The golden-record merger: helpers.merge_records under 'most_complete'   *)
(* on a cluster frame that has a 'zip' column                              *)
(***************************************************************************)
MaxMembers == 3    \* records of one cluster

\* pd.isna(x) or str(x).strip() == ''
IsBlank(val) == IsNa(val) \/ Strip(Str(val)) = ""

\* calculate_completeness_score: filled_count; the score is filled_count / len(important_fields)
filled_count(record, important_fields) ==
    Cardinality({field \in important_fields \cap DOMAIN record : ~IsBlank(record[field])})

\* variant: the last of the most complete records
most_complete_Last(records, important_fields) ==
    CHOOSE i \in 1..Len(records) :
        /\ \A j \in 1..Len(records) :
              filled_count(records[j], important_fields) <= filled_count(records[i], important_fields)
        /\ \A j \in (i + 1)..Len(records) :
              filled_count(records[j], important_fields) < filled_count(records[i], important_fields)

\* records.nlargest(1, '_completeness_score', keep='first'): the scores have
\* one denominator, so the counts order them
most_complete(records, important_fields) ==
    CHOOSE i \in 1..Len(records) :
        /\ \A j \in 1..Len(records) :
              filled_count(records[j], important_fields) <= filled_count(records[i], important_fields)
        /\ \A j \in 1..(i - 1) :
              filled_count(records[j], important_fields) < filled_count(records[i], important_fields)

\* non_empty.iloc[0]: the member that fills an empty column of the golden record
FirstFilled(records, col) ==
    CHOOSE i \in 1..Len(records) :
        ~IsBlank(records[i][col]) /\ \A j \in 1..(i - 1) : IsBlank(records[j][col])

\* the loop over records.columns: fill what is empty on the golden record
BackFilled(records, winner) ==
    [col \in DOMAIN winner |->
        IF IsBlank(winner[col]) /\ \E i \in 1..Len(records) : ~IsBlank(records[i][col])
        THEN records[FirstFilled(records, col)][col]
        ELSE winner[col]]

\* re.sub(r'\D', '', zip)[:5]
zip_base(zip) ==
    LET digits == OnlyDigits(zip)
    IN IF Len(digits) > 5 THEN SubSeq(digits, 1, 5) ELSE digits

\* the members whose stripped ZIP has a '-' and the base of current_zip
matching_zips(records, current_zip_base) ==
    {i \in 1..Len(records) :
        LET zip == Strip(Str(records[i].zip))
        IN ~IsNa(records[i].zip) /\ Contains(zip, "-") /\ zip_base(zip) = current_zip_base}

\* special handling for ZIP codes: prefer the first ZIP+4 with the same base
PreferPlus4(records, golden) ==
    LET current_zip == Str(golden.zip)
        current_zip_base == zip_base(current_zip)
        matching == matching_zips(records, current_zip_base)
    IN IF ~Contains(current_zip, "-") /\ current_zip_base # "" /\ matching # {}
       THEN [golden EXCEPT !.zip = Strip(Str(records[CHOOSE i \in matching : \A j \in matching : i <= j].zip))]
       ELSE golden

merge_records(records, important_fields) ==
    IF Len(records) = 1 THEN records[1]
    ELSE PreferPlus4(records, BackFilled(records, records[most_complete(records, important_fields)]))

\* MergeAgent._merge_cluster: merge_records(cluster_records, strategy, important_fields)
Merge ==
    /\ merging.status = "called"
    /\ merging' = [merging EXCEPT !.status = "merged",
                                  !.golden = merge_records(merging.records, merging.important_fields)]
    /\ UNCHANGED <<workers, blocking, compared, normalizing, undoers, workflow, ledgerVars, scorerVars, clusterVars, cacheVars>>

MemberNames == {"a", "b", " ", NaN}
MemberZips == {"", "75001", "75001-1234", " 75002-9 "}
Members == {[name |-> n, zip |-> z] : n \in MemberNames, z \in MemberZips}
ClusterFrames == UNION {[1..n -> Members] : n \in 1..MaxMembers}
ImportantFieldSets == {{"name", "zip"}, {"name", "address"}}

InitMerge ==
    /\ IdleLedger /\ IdleUndoers /\ IdleWorkflow /\ IdleWorkers /\ IdleBlocking /\ IdleCompared /\ IdleNormalized /\ IdleScorer /\ IdleCluster /\ IdleCache
    /\ \E records \in ClusterFrames, important_fields \in ImportantFieldSets :
          merging = [status |-> "called", records |-> records,
                     important_fields |-> important_fields, golden |-> <<>>]

NextMerge == Merge

SpecMerge == InitMerge /\ [][NextMerge]_vars

(***************************************************************************)
(* The location sub-scores of MatchingAgent._calculate_similarities:       *)
(* address, city, state and ZIP code of the two rows of a candidate pair,  *)
(* in hundredths                                                           *)
(***************************************************************************)
\* city1 in ['', 'nan', 'none']
Missing(text) == text \in {"", "nan", "none"}

\* the rows the validation step hands on: '' for a missing value
\* (normalize_address, normalize_string, normalize_zip, the state lambda)
LocationTexts == {"", "1 main st", "9 oak av", "Ada", "Enid"}
LocationRows ==
    [address_normalized : {"", "1 main st", "9 oak av"},
     city_normalized : {"", "Ada", "Enid"},
     state : {"", "TX", "OK"},
     zip_normalized : {"", "75001", "73301"}]

\* fuzz.ratio of the addresses and cities of the rows, computed once
LocationRatio ==
    [p \in LocationTexts \X LocationTexts |->
        IF p[1] = "" /\ p[2] = "" THEN 0 ELSE fuzz_ratio(p[1], p[2])]

\* _cached_fuzz_ratio: fuzz.ratio / 100.0; what the library returns for two
\* empty strings depends on its version and is an input
cached_fuzz_ratio(str1, str2, both_empty) ==
    IF str1 = "" /\ str2 = "" THEN both_empty ELSE LocationRatio[<<str1, str2>>]

address_similarity(rec1, rec2, both_empty) ==
    cached_fuzz_ratio(Str(rec1.address_normalized), Str(rec2.address_normalized), both_empty)

city_similarity(rec1, rec2, both_empty) ==
    LET city1 == Str(rec1.city_normalized)
        city2 == Str(rec2.city_normalized)
    IN IF Missing(city1) \/ Missing(city2) THEN 50 ELSE cached_fuzz_ratio(city1, city2, both_empty)

state_similarity(rec1, rec2) ==
    LET state1 == Str(rec1.state)
        state2 == Str(rec2.state)
    IN IF Missing(state1) \/ Missing(state2) THEN 50
       ELSE IF state1 = state2 THEN 100 ELSE 0

\* if zip1 and zip2 and zip1 == zip2: 1.0, else 0.0
zip_similarity(rec1, rec2) ==
    LET zip1 == Str(rec1.zip_normalized)
        zip2 == Str(rec2.zip_normalized)
    IN IF zip1 # "" /\ zip2 # "" /\ zip1 = zip2 THEN 100 ELSE 0

\* the address, city, state and ZIP code branches for one candidate pair
CompareLocations(both_empty) ==
    /\ compared.status = "called"
    /\ compared' = [compared EXCEPT
           !.status = "scored",
           !.similarities =
               [address |-> address_similarity(compared.rec1, compared.rec2, both_empty),
                city |-> city_similarity(compared.rec1, compared.rec2, both_empty),
                state |-> state_similarity(compared.rec1, compared.rec2),
                zip |-> zip_similarity(compared.rec1, compared.rec2)]]
    /\ UNCHANGED <<workers, blocking, merging, normalizing, undoers, workflow, ledgerVars, scorerVars, clusterVars, cacheVars>>

InitCompare ==
    /\ IdleLedger /\ IdleUndoers /\ IdleWorkflow /\ IdleWorkers /\ IdleBlocking /\ IdleMerging /\ IdleNormalized
    /\ IdleScorer /\ IdleCluster /\ IdleCache
    /\ \E rec1 \in LocationRows, rec2 \in LocationRows :
          compared = [status |-> "called", rec1 |-> rec1, rec2 |-> rec2, similarities |-> <<>>]

NextCompare == \E both_empty \in {0, 100} : CompareLocations(both_empty)

SpecCompare == InitCompare /\ [][NextCompare]_vars

(***************************************************************************)
(* MergeVersionManager.compare_versions. version_id is the AUTOINCREMENT   *)
(* key of ba_record_versions: the position of the row in the table         *)
(***************************************************************************)
\* SELECT ... WHERE version_id IN (?, ?) AND record_id = ?: no ORDER BY, the
\* rows come back in the order of the primary key
SelectVersions(record_id, version_id_1, version_id_2) ==
    LET ids == {i \in {version_id_1, version_id_2} \cap (1..Len(versions)) :
                   versions[i].record_id = record_id}
        RECURSIVE InKeyOrder(_)
        InKeyOrder(rest) ==
            IF rest = {} THEN <<>>
            ELSE LET first == CHOOSE i \in rest : \A j \in rest : i <= j
                 IN <<first>> \o InKeyOrder(rest \ {first})
    IN InKeyOrder(ids)

\* version_data.get(field)
DataGet(data, field) == IF field \in DOMAIN data THEN data[field] ELSE None

\* differences[field] = {'version_1': val1, 'version_2': val2} where val1 != val2
Differences(version_1_data, version_2_data) ==
    LET all_fields == DOMAIN version_1_data \cup DOMAIN version_2_data
        changed == {field \in all_fields :
                       DataGet(version_1_data, field) # DataGet(version_2_data, field)}
    IN [field \in changed |->
           [version_1 |-> DataGet(version_1_data, field),
            version_2 |-> DataGet(version_2_data, field)]]

CompareVersions(record_id, version_id_1, version_id_2) ==
    LET found == SelectVersions(record_id, version_id_1, version_id_2)
        args == <<record_id, version_id_1, version_id_2>>
    IN /\ result' =
              IF Len(found) # 2
              THEN [call |-> "compare_versions", arg |-> args, success |-> FALSE,
                    error |-> "Could not find both versions", raised |-> FALSE]
              ELSE [call |-> "compare_versions", arg |-> args, success |-> TRUE,
                    raised |-> FALSE,
                    differences |-> Differences(versions[found[1]].record_data,
                                                versions[found[2]].record_data)]
       /\ touched' = {}
       /\ UNCHANGED <<source, operations, versions, relationships, committed, writes, failures,
                      clock, history, scorerVars, clusterVars, cacheVars, runVars>>

\* merges that succeed, updates of the source records between them, and
\* comparisons of any two snapshots
NextVersions ==
    \/ \E c \in ClusterIds, S \in Clusters : Room(1) /\ RecordMergeOperation(c, S, RowOrder(S)[1], 0)
    \/ \E r \in WrittenRecords, v \in Values : UpdateSourceRecord(r, "cluster_id", v)
    \/ \E r \in RecIds, v1 \in 1..(3 * MaxOps), v2 \in 1..(3 * MaxOps) : CompareVersions(r, v1, v2)

SpecVersions == InitLedger /\ [][NextVersions]_vars

(***************************************************************************)
(* The normalizer: helpers.normalize_string, normalize_address,            *)
(* normalize_phone and normalize_zip, applied to a text and then to their  *)
(* own output (the normalization cache returns what they compute)          *)
(***************************************************************************)
\* re.sub(r'\D', '', str(phone))
normalize_phone(phone) == IF IsNa(phone) THEN "" ELSE OnlyDigits(Str(phone))

\* digits[:5] if len(digits) >= 5 else digits
normalize_zip(zip_code) ==
    IF IsNa(zip_code) THEN ""
    ELSE LET digits == OnlyDigits(Str(zip_code))
         IN IF Len(digits) >= 5 THEN SubSeq(digits, 1, 5) ELSE digits

Normalizers == {"normalize_string", "normalize_address", "normalize_phone", "normalize_zip"}

ApplyNormalizer(function, text) ==
    IF function = "normalize_string" THEN normalize_string(text, TRUE)
    ELSE IF function = "normalize_address" THEN normalize_address_uncached(text)
    ELSE IF function = "normalize_phone" THEN normalize_phone(text)
    ELSE normalize_zip(text)

\* one more application of the function to its last output
Normalize ==
    /\ normalizing.status = "called"
    /\ Len(normalizing.outputs) < 2
    /\ LET text == IF normalizing.outputs = <<>> THEN normalizing.text
                   ELSE normalizing.outputs[Len(normalizing.outputs)]
       IN normalizing' = [normalizing EXCEPT
              !.outputs = Append(@, ApplyNormalizer(normalizing.function, text))]
    /\ UNCHANGED <<workers, blocking, merging, compared, undoers, workflow, ledgerVars, scorerVars, clusterVars, cacheVars>>

Texts ==
    {"", " ", "1 Main  Street", "1 main st.", "1 A.V. Plaza", "5 Stre.et", "N.orth Rd",
     "12 North-West Av", " Ada  OK ", "(555) 123-4567", "75001-1234", "7500"}

InitNormalize ==
    /\ IdleLedger /\ IdleUndoers /\ IdleWorkflow /\ IdleWorkers /\ IdleBlocking /\ IdleMerging /\ IdleCompared
    /\ IdleScorer /\ IdleCluster /\ IdleCache
    /\ \E function \in Normalizers, text \in Texts :
          normalizing = [status |-> "called", function |-> function, text |-> text, outputs |-> <<>>]

NextNormalize == Normalize

SpecNormalize == InitNormalize /\ [][NextNormalize]_vars

(***************************************************************************)
(* undo_merge called over two connections at once. The SELECTs of steps 1  *)
(* and 2 run outside any transaction; the first UPDATE opens the           *)
(* transaction, which holds the database's write lock until the commit, so *)
(* the writes of one call are one step for the other connection, which     *)
(* waits for the lock and then goes on                                     *)
(***************************************************************************)
\* step 1: read the operation row, return if it is missing or undone
UndoCheck(c, operation_id) ==
    LET found == FindOperation(operations, operation_id)
        op == operations[CHOOSE i \in found : TRUE]
        refused(error) ==
            [pc |-> "idle", read |-> {},
             outcome |-> {Outcome("undo_merge", operation_id, FALSE, error, FALSE, 0, 0, 0)}]
    IN /\ undoers[c].pc = "idle"
       /\ Tables = committed
       /\ undoers' = [undoers EXCEPT ![c] =
              IF found = {} THEN refused("Operation not found")
              ELSE IF AlreadyUndone(op) THEN refused("Operation already undone")
              ELSE [pc |-> "checked", read |-> {op}, outcome |-> {}]]
       /\ UNCHANGED <<workers, blocking, merging, compared, normalizing, workflow, ledgerVars,
                      scorerVars, clusterVars, cacheVars>>

\* steps 2 to 5 and the commit, with the row that step 1 read
UndoApply(c) ==
    LET op == CHOOSE o \in undoers[c].read : TRUE
        snaps == BeforeSnapshots(versions, op.operation_id)
        t == UndoWrites(Tables, clock, op, snaps, Len(snaps) + UndoTail)
    IN /\ undoers[c].pc = "checked"
       /\ Install([t |-> t, c |-> t])
       /\ result' = Outcome("undo_merge", op.operation_id, TRUE, "", FALSE,
                            op.operation_id, LastRowId(operations), Len(snaps))
       /\ undoers' = [undoers EXCEPT ![c] = [pc |-> "idle", read |-> {}, outcome |-> {result'}]]
       /\ UNCHANGED <<writes, failures, clock, history, workers, blocking, merging, compared,
                      normalizing, workflow, scorerVars, clusterVars, cacheVars>>

NextUndoers ==
    \/ \E cluster_id \in ClusterIds, S \in Clusters :
          Room(1) /\ RecordMergeOperation(cluster_id, S, RowOrder(S)[1], 0)
    \/ \E r \in WrittenRecords, v \in Values : UpdateSourceRecord(r, "cluster_id", v)
    \/ \E c \in Connections, id \in 1..MaxOps : UndoCheck(c, id)
    \/ \E c \in Connections : Len(operations) <= MaxOps /\ UndoApply(c)

SpecUndoers == InitLedger /\ [][NextUndoers]_vars

(***************************************************************************)
(* The workflow engine: run starts the pipeline and walks the steps, each  *)
(* one skipped when the state manager has it completed and executed        *)
(* otherwise. The state manager saves its state after every change, so a   *)
(* later run, by the same engine or a new one, starts from it               *)
(***************************************************************************)
MaxRuns == 3

start_pipeline(state, pipeline_id) ==
    [state EXCEPT !.pipeline_id = pipeline_id, !.status = "in_progress"]

complete_pipeline(state) ==
    [state EXCEPT !.status = "completed", !.current_step = None]

fail_pipeline(state, error) ==
    [state EXCEPT !.status = "failed",
                  !.errors = Append(@, [error |-> error, step |-> state.current_step])]

start_step(state, step_name) ==
    [state EXCEPT !.current_step = step_name, !.step_results[step_name] = "in_progress"]

complete_step(state, step_name) ==
    [state EXCEPT !.completed_steps = IF step_name \in Range(@) THEN @ ELSE Append(@, step_name),
                  !.step_results[step_name] = "completed"]

fail_step(state, step_name, error) ==
    [state EXCEPT !.failed_steps = IF step_name \in Range(@) THEN @ ELSE Append(@, step_name),
                  !.step_results[step_name] = "failed",
                  !.errors = Append(@, [error |-> error, step |-> step_name])]

should_skip_step(state, step_name) == step_name \in Range(state.completed_steps)

\* agent.execute(data): the ingestion agent ignores its input and reads its
\* source, the others work on the frame they are given and raise on None
execute(agent, data) ==
    IF agent = "ingestion" THEN {<<agent>>}
    ELSE {Append(lineage, agent) : lineage \in data}

\* run up to the loop: start_pipeline, current_data = initial_data
Run(initial_data) ==
    /\ workflow.pc = "idle"
    /\ workflow.runs < MaxRuns
    /\ workflow' = [workflow EXCEPT !.state = start_pipeline(@, "ba_dedup"),
                                    !.current_data = initial_data,
                                    !.pc = "loop", !.step = 1, !.runs = @ + 1, !.returned = {}]
    /\ UNCHANGED <<workers, blocking, merging, compared, normalizing, undoers, ledgerVars,
                   scorerVars, clusterVars, cacheVars>>

\* one turn of the loop at a completed step: continue
SkipStep ==
    /\ workflow.pc = "loop"
    /\ workflow.step <= Len(Steps)
    /\ should_skip_step(workflow.state, Steps[workflow.step])
    /\ workflow' = [workflow EXCEPT !.step = @ + 1]
    /\ UNCHANGED <<workers, blocking, merging, compared, normalizing, undoers, ledgerVars,
                   scorerVars, clusterVars, cacheVars>>

\* one turn of the loop at any other step: _execute_step, and on an
\* exception fail_step, fail_pipeline and the end of the run
_execute_step(raises) ==
    LET step_name == Steps[workflow.step]
        started == start_step(workflow.state, step_name)
        produced == execute(step_name, workflow.current_data)
        call == [run |-> workflow.runs, step |-> step_name, input |-> workflow.current_data]
    IN /\ workflow.pc = "loop"
       /\ workflow.step <= Len(Steps)
       /\ ~should_skip_step(workflow.state, step_name)
       /\ workflow' =
            IF raises \/ produced = {}
            THEN [workflow EXCEPT
                    !.state = fail_pipeline(fail_step(started, step_name, "error"), "error"),
                    !.executed = Append(@, call @@ [output |-> {}]),
                    !.pc = "idle"]
            ELSE [workflow EXCEPT
                    !.state = complete_step(started, step_name),
                    !.step_results = Append(@, [step |-> step_name, result |-> produced]),
                    !.executed = Append(@, call @@ [output |-> produced]),
                    !.current_data = produced,
                    !.step = @ + 1]
       /\ UNCHANGED <<workers, blocking, merging, compared, normalizing, undoers, ledgerVars,
                      scorerVars, clusterVars, cacheVars>>

\* the end of the loop: complete_pipeline, return current_data
RunReturns ==
    /\ workflow.pc = "loop"
    /\ workflow.step > Len(Steps)
    /\ workflow' = [workflow EXCEPT !.state = complete_pipeline(@), !.pc = "idle",
                                    !.returned = workflow.current_data]
    /\ UNCHANGED <<workers, blocking, merging, compared, normalizing, undoers, ledgerVars,
                   scorerVars, clusterVars, cacheVars>>

\* the caller's initial_data: None, or a frame of its own
InitialData == {{}, {<<>>}}

InitWorkflow ==
    /\ IdleLedger /\ IdleRun /\ IdleScorer /\ IdleCluster /\ IdleCache

NextWorkflow ==
    \/ \E initial_data \in InitialData : Run(initial_data)
    \/ SkipStep
    \/ \E raises \in BOOLEAN : _execute_step(raises)
    \/ RunReturns

SpecWorkflow == InitWorkflow /\ [][NextWorkflow]_vars

(***************************************************************************)
(* Properties of the version ledger                                        *)
(***************************************************************************)
OperationIds(ops) == {ops[i].operation_id : i \in 1..Len(ops)}

RowsOf(table, operation_id) == SelectSeq(table, LAMBDA row : row.operation_id = operation_id)

SucceededCall(call) == result.call = call /\ result.success /\ ~result.raised

\* C1: after a successful undo_merge(op) every source record of op holds, in
\* each field of its before_merge snapshot, the value of the snapshot; and the
\* snapshot a successful record_merge_operation writes holds the record's
\* fields as they are in the source table at the merge.
C1_UndoRestoresSnapshots ==
    /\ SucceededCall("undo_merge") =>
          \A i \in 1..Len(versions) :
              (versions[i].operation_id = result.operation_id
                  /\ versions[i].version_type = "before_merge") =>
              \A f \in SetClauses(versions[i].record_data) :
                  source[versions[i].record_id][f] = versions[i].record_data[f]
    /\ SucceededCall("record_merge_operation") =>
          \A i \in 1..Len(versions) :
              (versions[i].operation_id = result.operation_id
                  /\ versions[i].version_type = "before_merge") =>
              \A f \in Fields :
                  versions[i].record_data[f] = source[versions[i].record_id][f]

\* an undo succeeded and put back a record that was written after the merge
C1_Witness == SucceededCall("undo_merge") /\ touched # {} /\ writes > 0

\* C2: undo_merge of an operation_id that does not exist, or of an operation
\* already undone, returns a failure naming that precondition and changes no
\* table, neither in the connection's view nor in what is committed.
C2_RefusedUndoChangesNothing ==
    [][result'.call = "undo_merge" =>
          LET found == FindOperation(operations, result'.arg)
              refused(error) == /\ ~result'.success
                                /\ ~result'.raised
                                /\ result'.error = error
                                /\ TablesNext = Tables
                                /\ committed' = committed
          IN /\ found = {} => refused("Operation not found")
             /\ (found # {} /\ \A i \in found : operations[i].is_undone)
                    => refused("Operation already undone")]_vars

\* a second undo of an undone operation was refused
C2_Witness ==
    /\ result.call = "undo_merge"
    /\ result.error = "Operation already undone"
    /\ \E i \in 1..Len(operations) :
          operations[i].operation_id = result.arg /\ operations[i].is_undone

\* C3: a successful undo_merge(op) deletes no ledger row; it appends exactly
\* one operation of type 'undo' with a fresh operation_id, sets op.is_undone
\* and sets op.undone_by_operation_id to the new operation's id.
C3_UndoAppendsAndLinks ==
    [][(result'.call = "undo_merge" /\ result'.success) =>
          LET n == Len(operations)
              undo == operations'[n + 1]
          IN /\ Len(operations') = n + 1
             /\ undo.operation_type = "undo"
             /\ undo.operation_id \notin OperationIds(operations)
             /\ undo.operation_id = result'.undo_operation_id
             /\ \A i \in 1..n :
                   operations'[i] =
                       IF operations[i].operation_id = result'.arg
                       THEN [operations[i] EXCEPT !.is_undone = TRUE,
                                                  !.undone_by_operation_id = undo.operation_id]
                       ELSE operations[i]
             /\ versions' = versions
             /\ relationships' = relationships]_vars

\* an operation is undone and linked to an 'undo' operation
C3_Witness ==
    /\ SucceededCall("undo_merge")
    /\ \E i, j \in 1..Len(operations) :
          /\ operations[i].operation_id = result.operation_id
          /\ operations[i].is_undone
          /\ operations[j].operation_type = "undo"
          /\ operations[i].undone_by_operation_id = operations[j].operation_id

\* the ledger of `new` extends the ledger of `old`: every old row is still
\* there, operation rows changed at most in is_undone (false to true) and
\* undone_by_operation_id, snapshots and relationships not at all
LedgerExtends(old, new) ==
    /\ Len(new.operations) >= Len(old.operations)
    /\ \A i \in 1..Len(old.operations) :
          /\ [new.operations[i] EXCEPT !.is_undone = FALSE, !.undone_by_operation_id = 0]
                = [old.operations[i] EXCEPT !.is_undone = FALSE, !.undone_by_operation_id = 0]
          /\ old.operations[i].is_undone => new.operations[i].is_undone
    /\ IsPrefix(old.versions, new.versions)
    /\ IsPrefix(old.relationships, new.relationships)

\* C4: across record_merge_operation, undo_merge and rollback_to_timestamp
\* the ledger is append-only, in the connection's view and in what is
\* committed: no row is deleted, no snapshot or relationship is modified, an
\* operation row changes only in is_undone (false to true) and
\* undone_by_operation_id.
C4_LedgerAppendOnly ==
    [][LedgerExtends(Tables, TablesNext) /\ LedgerExtends(committed, committed')]_vars

\* a rollback undid an operation recorded earlier
C4_Witness ==
    /\ SucceededCall("rollback_to_timestamp")
    /\ result.count > 0
    /\ \E i \in 1..Len(operations) : operations[i].is_undone

\* the rows of an operation are all there: its snapshots, its golden record
\* and its relationships
Complete(t, op) ==
    /\ Len(SelectSeq(RowsOf(t.versions, op.operation_id),
                     LAMBDA v : v.version_type = "before_merge")) = op.record_count
    /\ Len(SelectSeq(RowsOf(t.versions, op.operation_id),
                     LAMBDA v : v.version_type = "golden")) = 1
    /\ Len(RowsOf(t.relationships, op.operation_id)) = op.record_count

\* C5: all rows of one merge operation commit or none do: no committed
\* merge operation lacks a snapshot, its golden record or a relationship.
C5_NoPartialOperationPersisted ==
    \A i \in 1..Len(committed.operations) :
        committed.operations[i].operation_type # "undo"
            => Complete(committed, committed.operations[i])

\* C6: a call other than a successful undo (or a rollback, or the import
\* tracker's update) never makes a restore durable, never makes an
\* operation durably undone or linked, and never commits an 'undo' row: what
\* a failed undo_merge wrote is not applied by a later commit either.
C6_FailedUndoAppliesNothing ==
    [][~(\/ result'.call = "undo_merge" /\ result'.success
         \/ result'.call = "rollback_to_timestamp"
         \/ result'.call = "update_source_record") =>
          /\ committed'.source = committed.source
          /\ \A i \in 1..Len(committed.operations) :
                committed'.operations[i] = committed.operations[i]
          /\ \A i \in 1..Len(committed'.operations) :
                i > Len(committed.operations)
                    => committed'.operations[i].operation_type # "undo"]_vars

\* C7: when the ledger write fails while a cluster is merged, the merge
\* entry point raises: it does not return a golden record.
C7_LedgerFailureSurfaced ==
    (result.call = "merge_cluster" /\ result.error # "")
        => (result.raised /\ ~result.success)

\* C8: a successful record_merge_operation on N records adds exactly one
\* operation row (not undone, record_count N) whose id is the returned one
\* and was never issued before, N before_merge snapshots of N distinct
\* records, one golden snapshot, and N relationships from those records to
\* the golden record, all with the returned id; it changes no other row.
C8_RecordMergeRows ==
    [][(result'.call = "record_merge_operation" /\ result'.success) =>
          LET id == result'.operation_id
              N == result'.count
              op == operations'[Len(operations) + 1]
              newVersions == SubSeq(versions', Len(versions) + 1, Len(versions'))
              newRelations == SubSeq(relationships', Len(relationships) + 1, Len(relationships'))
              before == SelectSeq(newVersions, LAMBDA v : v.version_type = "before_merge")
              golden == SelectSeq(newVersions, LAMBDA v : v.version_type = "golden")
          IN /\ LedgerExtends(Tables, TablesNext)
             /\ \A i \in 1..Len(operations) : operations'[i] = operations[i]
             /\ Len(operations') = Len(operations) + 1
             /\ op.operation_id = id
             /\ id \notin OperationIds(operations)
             /\ ~op.is_undone
             /\ op.record_count = N
             /\ Len(newVersions) = N + 1
             /\ Len(before) = N
             /\ Cardinality({before[i].record_id : i \in 1..N}) = N
             /\ Len(golden) = 1
             /\ golden[1].record_id = op.golden_record_id
             /\ \A i \in 1..Len(newVersions) : newVersions[i].operation_id = id
             /\ Len(newRelations) = N
             /\ {newRelations[i].source_record_id : i \in 1..N}
                    = {before[i].record_id : i \in 1..N}
             /\ \A i \in 1..N : /\ newRelations[i].operation_id = id
                                /\ newRelations[i].target_record_id = op.golden_record_id]_vars

\* a second merge operation was recorded, after an earlier one
C8_Witness ==
    /\ SucceededCall("record_merge_operation")
    /\ result.count = 2
    /\ result.operation_id > 1
    /\ Len(RowsOf(versions, result.operation_id)) = 3

(***************************************************************************)
(* Properties of the scorer's safety gates                                 *)
(***************************************************************************)
\* the row of the frame a ScoredPair names
RowOf(record_id) == df[CHOOSE i \in 1..Len(df) : df[i].record_id = record_id]

EntityTypeOf(rec) == IF "entity_type" \in DOMAIN rec THEN rec.entity_type ELSE "individual"

\* C9: no ScoredPair is returned for two records of different entity types,
\* nor for two departments whose extracted department names differ, whatever
\* the similarities and also when their SSN tokens are equal.
C9_NoPairAcrossEntityTypes ==
    \A k \in 1..Len(pairs) :
        LET rec1 == RowOf(pairs[k].record_id_1)
            rec2 == RowOf(pairs[k].record_id_2)
        IN /\ EntityTypeOf(rec1) = EntityTypeOf(rec2)
           /\ EntityTypeOf(rec1) = "department" =>
                 extract_department_name(Str(rec1.name)) = extract_department_name(Str(rec2.name))

\* two records of different entity types, or two different departments, with
\* equal SSN tokens were compared and no pair came back
C9_Witness ==
    /\ scoring = "returned"
    /\ pairs = <<>>
    /\ HasColumn(df, "name")
    /\ SsnMatch(df[1], df[2])
    /\ \/ df[1].entity_type # df[2].entity_type
       \/ /\ df[1].entity_type = "department"
          /\ df[2].entity_type = "department"
          /\ extract_department_name(df[1].name) # extract_department_name(df[2].name)

SuffixOf(rec) == IF "name_suffix" \in DOMAIN rec THEN normalize_suffix(rec.name_suffix) ELSE ""

\* C10: no ScoredPair is returned for two records that both carry a
\* recognized suffix when the normalized suffixes differ, whatever the
\* similarities and the SSN tokens.
C10_NoPairAcrossSuffixes ==
    \A k \in 1..Len(pairs) :
        LET suffix1 == SuffixOf(RowOf(pairs[k].record_id_1))
            suffix2 == SuffixOf(RowOf(pairs[k].record_id_2))
        IN ~(suffix1 # "" /\ suffix2 # "" /\ suffix1 # suffix2)

\* two individuals with suffixes jr and sr and equal SSN tokens were compared
\* and no pair came back
C10_Witness ==
    /\ scoring = "returned"
    /\ pairs = <<>>
    /\ HasColumn(df, "name")
    /\ df[1].entity_type = df[2].entity_type
    /\ SuffixOf(df[1]) = "jr"
    /\ SuffixOf(df[2]) = "sr"
    /\ SsnMatch(df[1], df[2])

\* C15: a pair that passes both safety gates and whose records carry equal,
\* non-empty SSN tokens yields exactly one scored pair, with similarity_score
\* 1.0 (10000), whatever the configured threshold and the other columns.
C15_TokenMatchScoresOne ==
    (/\ scoring # "idle"
     /\ ~EntityGate(df, df[1], df[2])
     /\ ~SuffixGate(df, df[1], df[2])
     /\ df[1].ssn_token # ""
     /\ df[1].ssn_token = df[2].ssn_token)
    => /\ scoring = "returned"
       /\ Len(pairs) = 1
       /\ pairs[1].similarity_score = 10000

\* two records with different names and the same token, scored under a
\* threshold that no score reaches
C15_Witness ==
    /\ scoring = "returned"
    /\ HasColumn(df, "name")
    /\ df[1].name # df[2].name
    /\ df[1].ssn_token # "" /\ df[1].ssn_token = df[2].ssn_token
    /\ config.similarity_threshold > 10000
    /\ Len(pairs) = 1
    /\ pairs[1].similarity_score = 10000

\* C16: every scored pair has a similarity_score from 0 to 1 (0..10000),
\* for every combination of sub-scores, nickname boost, penalties and bonus.
C16_ScoreWithinUnitInterval ==
    \A i \in 1..Len(pairs) :
        pairs[i].similarity_score >= 0 /\ pairs[i].similarity_score <= 10000

\* a fuzzy pair whose bonus was capped at 1.0, the one-sided-suffix penalty
\* applied before it
C16_Witness ==
    /\ scoring = "returned"
    /\ Len(pairs) = 1
    /\ "match_method" \notin DOMAIN pairs[1]
    /\ pairs[1].similarity_score = 10000
    /\ (SuffixNorm(df[1]) = "") # (SuffixNorm(df[2]) = "")

(***************************************************************************)
(* Properties of rollback_to_timestamp                                     *)
(***************************************************************************)
\* the rows of ba_merge_operations that a step marks undone
NewlyUndone(before, after) ==
    {i \in 1..Len(before) : ~before[i].is_undone /\ after[i].is_undone}

\* the records with a before_merge snapshot under the operation
SnapshotRecords(vs, operation_id) ==
    {vs[i].record_id : i \in {j \in 1..Len(vs) :
        vs[j].operation_id = operation_id /\ vs[j].version_type = "before_merge"}}

\* C13: rollback_to_timestamp undoes the operations it selects in strict
\* reverse chronological order: of two operations it undoes, the one that
\* was recorded later is undone first (its undo row is the earlier one).
C13_RollbackNewestFirst ==
    [][result'.call = "rollback_to_timestamp" =>
          \A i, j \in NewlyUndone(operations, operations') :
              i < j => operations'[j].undone_by_operation_id
                          < operations'[i].undone_by_operation_id]_vars

\* the record's earliest before_merge snapshot under an operation recorded
\* after t
FirstSnapshotAfter(ops, vs, r, t) ==
    LET after == {j \in 1..Len(vs) :
                    /\ vs[j].record_id = r
                    /\ vs[j].version_type = "before_merge"
                    /\ \E i \in 1..Len(ops) : /\ ops[i].operation_id = vs[j].operation_id
                                              /\ ops[i].operation_timestamp > t}
    IN vs[CHOOSE j \in after : \A k \in after : j <= k].record_data

\* the record reached its first merge after t with the values it had at t
UntouchedBeforeMerge(r, t) ==
    \A f \in Fields : FirstSnapshotAfter(operations, versions, r, t)[f] = SourceAt(t)[r][f]

\* C14: after rollback_to_timestamp(t) has returned, every source record
\* that took part in operations recorded after t, all of them now undone,
\* holds the field values it had at time t, also when it took part in
\* several of them. Stated for the records that entered their first merge
\* after t unchanged, so that the ledger does hold their values of time t.
C14_RollbackRestoresStateAt ==
    (result.call = "rollback_to_timestamp" /\ result.success) =>
        \A i \in 1..Len(operations) :
            (operations[i].operation_type # "undo"
               /\ operations[i].operation_timestamp > result.arg
               /\ operations[i].is_undone)
            => \A r \in SnapshotRecords(versions, operations[i].operation_id) :
                  UntouchedBeforeMerge(r, result.arg) => source[r] = SourceAt(result.arg)[r]

(***************************************************************************)
(* Properties of the clusterer                                             *)
(***************************************************************************)
\* the orders in which a list of pairs can be processed
Reorderings(duplicate_pairs) ==
    {[i \in 1..Len(duplicate_pairs) |-> duplicate_pairs[order[i]]] :
        order \in {o \in [1..Len(duplicate_pairs) -> 1..Len(duplicate_pairs)] :
                      \A i, j \in 1..Len(duplicate_pairs) : i # j => o[i] # o[j]}}

\* the implementation that produced an outcome, run on another list
Rerun(outcome, duplicate_pairs) ==
    IF outcome.impl = "agent" THEN ClusterAgent(duplicate_pairs)
    ELSE ClusterSkill(duplicate_pairs)

\* two assignments of cluster ids that group the records the same way
SamePartition(ids1, ids2) ==
    /\ \A r \in Records : (ids1[r] = Sentinel) <=> (ids2[r] = Sentinel)
    /\ \A r, s \in Records : (ids1[r] = ids1[s]) <=> (ids2[r] = ids2[s])

\* r and s are joined by a chain of retained pairs (reachability computed
\* by closing the set of reached records under the pairs)
RECURSIVE Reached(_, _)
Reached(duplicate_pairs, S) ==
    LET more == S \cup {r \in Records : \E i \in 1..Len(duplicate_pairs) :
                         \/ duplicate_pairs[i].record_id_1 \in S /\ duplicate_pairs[i].record_id_2 = r
                         \/ duplicate_pairs[i].record_id_2 \in S /\ duplicate_pairs[i].record_id_1 = r}
    IN IF more = S THEN S ELSE Reached(duplicate_pairs, more)

Connected(duplicate_pairs, r, s) == s \in Reached(duplicate_pairs, {r})

\* the record is named by some retained pair
InSomePair(duplicate_pairs, r) ==
    \E i \in 1..Len(duplicate_pairs) :
        duplicate_pairs[i].record_id_1 = r \/ duplicate_pairs[i].record_id_2 = r

\* C11: clustering is order-independent: whatever list of retained pairs was
\* clustered, clustering the same pairs in any other order returns too and
\* groups the records into the same partition.
C11_ClusteringOrderIndependent ==
    clustered.status # "idle" =>
        \A other \in Reorderings(retained) :
            /\ clustered.status = "returned"
            /\ Rerun(clustered, other).status = "returned"
            /\ SamePartition(clustered.cluster_id, Rerun(clustered, other).cluster_id)

\* C12: after clustering has returned, every record carries exactly one
\* cluster_id; two different records share a non-sentinel id exactly when a
\* chain of retained pairs joins them; a record carries the sentinel -1
\* exactly when no retained pair names it.
C12_ClustersAreComponents ==
    clustered.status = "returned" =>
        /\ DOMAIN clustered.cluster_id = Records
        /\ \A r \in Records :
              (clustered.cluster_id[r] = Sentinel) <=> ~InSomePair(retained, r)
        /\ \A r, s \in Records : r # s =>
              ((clustered.cluster_id[r] = clustered.cluster_id[s]
                    /\ clustered.cluster_id[r] # Sentinel)
                 <=> Connected(retained, r, s))

\* a clustering that returned with three records chained into one cluster
\* (the two ends joined only through the middle) and a record in no pair
C12_Witness ==
    /\ clustered.status = "returned"
    /\ \E r, s, t \in Records :
          /\ r # s /\ s # t /\ r # t
          /\ Connected(retained, r, t)
          /\ ~\E i \in 1..Len(retained) :
                {retained[i].record_id_1, retained[i].record_id_2} = {r, t}
          /\ clustered.cluster_id[r] = clustered.cluster_id[t]
          /\ clustered.cluster_id[r] = clustered.cluster_id[s]
          /\ clustered.cluster_id[r] # Sentinel
    /\ \E u \in Records : clustered.cluster_id[u] = Sentinel

(***************************************************************************)
(* Properties of the caches                                                *)
(***************************************************************************)
\* FuzzyMatchCache.get(str1, str2) would hit in the current state
Cached(str1, str2) == make_key(str1, str2) \in Keys(fuzzy_cache)

\* the score that hit returns
CachedScore(str1, str2) == Item(fuzzy_cache, make_key(str1, str2))

\* C17: in every cache state get(a, b) and get(b, a) return the same result
\* (both miss, or both hit with the same score), and the score last stored
\* with put(a, b) is what get(b, a) returns as long as the entry has not
\* been evicted since.
C17_FuzzyCacheSymmetric ==
    \A p \in ComparedPairs :
        /\ Cached(p[1], p[2]) <=> Cached(p[2], p[1])
        /\ Cached(p[1], p[2]) => CachedScore(p[1], p[2]) = CachedScore(p[2], p[1])
        /\ \A score \in stored[p] :
              Cached(p[2], p[1]) /\ CachedScore(p[2], p[1]) = score

\* C19: eviction is strict least-recently-used: the entry a put evicts is
\* the one whose last access (get hit or put) is the oldest in that cache.
C19_EvictionIsStrictLru ==
    (answer.call = "put" /\ answer.evicted # None) => answer.evicted = answer.oldest

\* C20: after any sequence of get and put calls the fuzzy cache and every
\* per-field normalization cache hold at most max_size entries.
C20_CachesBounded ==
    /\ Len(fuzzy_cache) <= max_size
    /\ \A field_type \in FieldTypes : Len(caches[field_type]) <= max_size

\* a put that found the cache at capacity, evicted an entry and left the
\* cache full
C20_Witness ==
    /\ answer.call = "put"
    /\ answer.evicted # None
    /\ \/ answer.cache = "fuzzy" /\ Len(fuzzy_cache) = max_size
       \/ answer.cache = "name" /\ Len(caches.name) = max_size

\* C18: the caches are no correctness dependency: whatever calls came
\* before, a cached helper returns exactly what the uncached computation
\* returns for the same arguments.
C18_CachedEqualsUncached ==
    /\ answer.call = "_cached_fuzz_ratio" => answer.value = Ratio[answer.args]
    /\ answer.call = "_cached_fuzz_token_sort_ratio" => answer.value = TokenSortRatio[answer.args]
    /\ answer.call = "normalize_address" => answer.value = NormalizedAddress[answer.args[1]]

(***************************************************************************)
(* Properties of the shared cache under concurrent workers                 *)
(***************************************************************************)
\* C21: when several workers call get and put on the shared cache at the
\* same time, no call raises, the cache stays a dictionary of at most
\* max_size distinct keys, and a get returns a miss or the score stored for
\* its own pair
C21_ConcurrentCacheSafe ==
    /\ \A w \in Workers :
          LET o == workers[w].outcome
          IN /\ o.status # "raised"
             /\ (o.status = "returned" /\ o.call = "get") => o.value \subseteq {Ratio[o.args]}
    /\ Len(fuzzy_cache) <= max_size
    /\ Cardinality(Keys(fuzzy_cache)) = Len(fuzzy_cache)

(***************************************************************************)
(* Properties of the blocking index                                        *)
(***************************************************************************)
\* the rows no blocking strategy put into a pair
Uncovered == Index(blocking.df) \ Covered(blocking.existing)

\* C22: the bounded fallback never adds more pairs than the configured
\* maximum pair budget, for every frame and every budget
C22_FallbackWithinBudget ==
    blocking.status = "returned" =>
        Cardinality(blocking.pairs \ blocking.existing) <= blocking.max_missing_data_pairs

\* C23: in a frame of at least two records, every record the blocking
\* strategies left uncovered is in at least one candidate pair once the
\* bounded fallback has run
C23_FallbackCoversEveryRecord ==
    (blocking.status = "returned" /\ Len(blocking.df) >= 2) =>
        Uncovered \subseteq Covered(blocking.pairs)

(***************************************************************************)
(* Properties of the golden-record merger                                  *)
(***************************************************************************)
\* the member the golden record starts from: the highest count of non-empty
\* important fields, the first such member in input order
StartsFrom(i) ==
    LET count(j) == Cardinality({f \in merging.important_fields \cap {"name", "zip"} :
                                    ~IsBlank(merging.records[j][f])})
    IN /\ \A j \in 1..Len(merging.records) : count(j) <= count(i)
       /\ \A j \in 1..(i - 1) : count(j) < count(i)

\* the value of the first member that has the column non-empty
FirstValue(col) ==
    LET i == CHOOSE i \in 1..Len(merging.records) :
                 /\ ~IsBlank(merging.records[i][col])
                 /\ \A j \in 1..(i - 1) : IsBlank(merging.records[j][col])
    IN merging.records[i][col]

SomeValue(col) == \E i \in 1..Len(merging.records) : ~IsBlank(merging.records[i][col])

\* what the golden record holds in a column before the ZIP+4 preference
Expected(i, col) ==
    IF IsBlank(merging.records[i][col]) /\ SomeValue(col) THEN FirstValue(col)
    ELSE merging.records[i][col]

\* the ZIP+4 preference applies: the value has no '-', and the golden ZIP is
\* the first member ZIP with a '-' and the same five leading digits
IsPlus4Of(golden_zip, value) ==
    LET candidates == {j \in 1..Len(merging.records) :
            /\ ~IsNa(merging.records[j].zip)
            /\ Contains(merging.records[j].zip, "-")
            /\ zip_base(merging.records[j].zip) = zip_base(Str(value))}
    IN /\ ~Contains(Str(value), "-") /\ zip_base(Str(value)) # "" /\ candidates # {}
       /\ golden_zip = Strip(merging.records[CHOOSE j \in candidates : \A k \in candidates : j <= k].zip)

Plus4Available(value) ==
    /\ ~Contains(Str(value), "-") /\ zip_base(Str(value)) # ""
    /\ \E j \in 1..Len(merging.records) :
          /\ ~IsNa(merging.records[j].zip)
          /\ Contains(merging.records[j].zip, "-")
          /\ zip_base(merging.records[j].zip) = zip_base(Str(value))

\* C24 as stated: the golden record starts from the most complete member
\* (the first one on ties); every field empty on it and non-empty on another
\* member takes the first non-empty value; and, apart from the ZIP+4
\* preference, every field non-empty on the winner keeps the winner's value
C24_MostCompleteAsStated ==
    merging.status = "merged" =>
        \E i \in 1..Len(merging.records) :
            /\ StartsFrom(i)
            /\ \A col \in {"name", "zip"} :
                  IF IsBlank(merging.records[i][col])
                  THEN SomeValue(col) => merging.golden[col] = FirstValue(col)
                  ELSE \/ merging.golden[col] = merging.records[i][col]
                       \/ col = "zip" /\ IsPlus4Of(merging.golden.zip, merging.records[i].zip)

\* C24, amended: the ZIP+4 preference applies to the ZIP code after the
\* back-fill too: the golden ZIP is the winner's or back-filled ZIP code,
\* unless that one has no '-' and a member has a ZIP+4 with the same five
\* leading digits, and then it is the first such ZIP+4; every other field is
\* the winner's value, or the first non-empty value where the winner has none
C24_MostComplete ==
    merging.status = "merged" =>
        \E i \in 1..Len(merging.records) :
            /\ StartsFrom(i)
            /\ merging.golden.name = Expected(i, "name")
            /\ IF Plus4Available(Expected(i, "zip"))
               THEN IsPlus4Of(merging.golden.zip, Expected(i, "zip"))
               ELSE merging.golden.zip = Expected(i, "zip")

\* a golden record whose ZIP code was back-filled and then replaced by a ZIP+4
C24_Witness ==
    /\ merging.status = "merged"
    /\ Len(merging.records) = 3
    /\ \E i \in 1..3 :
          /\ StartsFrom(i) /\ i > 1
          /\ IsBlank(merging.records[i].zip) /\ SomeValue("zip")
          /\ merging.golden.zip # FirstValue("zip")
          /\ ~IsBlank(merging.golden.name)

(***************************************************************************)
(* Properties of the location sub-scores                                   *)
(***************************************************************************)
\* the column of a location field
ColumnOf(field) ==
    IF field = "state" THEN "state" ELSE field \o "_normalized"

\* the field is empty on one of the two rows
EmptyOnEither(field) ==
    compared.rec1[ColumnOf(field)] = "" \/ compared.rec2[ColumnOf(field)] = ""

\* C25: a field that is empty or missing on either record of a pair is never
\* scored as a mismatch: its sub-score is never 0.0, the value given to two
\* present values that differ (two states or ZIP codes that are not equal,
\* two strings without a common character)
C25_MissingIsNoMismatch ==
    compared.status = "scored" =>
        \A field \in {"address", "city", "state", "zip"} :
            EmptyOnEither(field) => compared.similarities[field] # 0

(***************************************************************************)
(* Properties of the version comparison                                    *)
(***************************************************************************)
\* the fields of two snapshots whose values differ
Differing(data_1, data_2) ==
    {field \in DOMAIN data_1 \cup DOMAIN data_2 : DataGet(data_1, field) # DataGet(data_2, field)}

\* C26: compare_versions(record_id, v1, v2) on two existing snapshots of the
\* record returns exactly the fields whose values differ, and for each of
\* them the first value is the field's value in snapshot v1 and the second
\* its value in snapshot v2, in whichever order the two ids are passed
C26_DifferencesFollowArguments ==
    (result.call = "compare_versions" /\ result.success) =>
        LET data_1 == versions[result.arg[2]].record_data
            data_2 == versions[result.arg[3]].record_data
        IN /\ DOMAIN result.differences = Differing(data_1, data_2)
           /\ \A field \in DOMAIN result.differences :
                 /\ result.differences[field].version_1 = DataGet(data_1, field)
                 /\ result.differences[field].version_2 = DataGet(data_2, field)

(***************************************************************************)
(* Properties of the normalizer                                            *)
(***************************************************************************)
\* C27: normalize_string, normalize_address, normalize_phone and
\* normalize_zip are idempotent: applied to its own output, each returns
\* that output unchanged, for every input string
C27_NormalizersIdempotent ==
    (normalizing.status = "called" /\ Len(normalizing.outputs) = 2) =>
        normalizing.outputs[2] = normalizing.outputs[1]

(***************************************************************************)
(* Properties of the merge agent's snapshots                               *)
(***************************************************************************)
\* the columns of a source record as the cluster frame holds it
SourceColumns == Fields \cup {"record_id"}

\* C28: merging a cluster leaves its member records unchanged, so every
\* before_merge snapshot the merge writes holds exactly the fields the
\* source record had before the merge
C28_SnapshotsHoldSourceFields ==
    \A i \in 1..Len(versions) :
        versions[i].version_type = "before_merge"
            => DOMAIN versions[i].record_data = SourceColumns

(***************************************************************************)
(* Properties of overlapping undo calls                                    *)
(***************************************************************************)
\* the connections whose last undo_merge of the operation returned success
Succeeded(operation_id) ==
    {c \in Connections :
        \E o \in undoers[c].outcome : o.success /\ o.arg = operation_id}

UndoRows == {i \in 1..Len(operations) : operations[i].operation_type = "undo"}

UndoneRows == {i \in 1..Len(operations) : operations[i].is_undone}

\* C29: at most one undo takes effect per merge operation: of two
\* overlapping undo_merge calls for one operation_id at most one returns
\* success, and at most one 'undo' operation is appended for the operation
C29_AtMostOneUndoPerMerge ==
    /\ \A id \in 1..MaxOps : Cardinality(Succeeded(id)) <= 1
    /\ Cardinality(UndoRows) <= Cardinality(UndoneRows)

(***************************************************************************)
(* Properties of a repeated workflow run                                   *)
(***************************************************************************)
Executed == workflow.executed

\* the calls of agents that open a run with steps completed before it
Resumed ==
    {j \in 2..Len(Executed) :
        /\ Executed[j - 1].run # Executed[j].run
        /\ \E i \in 1..(j - 1) : Executed[i].output # {}}

\* the output of the last step completed before call j
LastOutput(j) ==
    LET done == {i \in 1..(j - 1) : Executed[i].output # {}}
    IN Executed[CHOOSE i \in done : \A k \in done : k <= i].output

\* C30: in a run repeated after a failed run no step recorded as
\* completed is executed again, and the first step executed receives the
\* output of the last completed step, not the run's initial input
C30_ResumeFromLastCompleted ==
    /\ \A i, j \in 1..Len(Executed) :
          i < j /\ Executed[i].output # {} => Executed[i].step # Executed[j].step
    /\ \A j \in Resumed : Executed[j].input = LastOutput(j)

====
